---- MODULE Spec2Model ----
(***************************************************************************)
(* Verification model of graphspecter (CyberRoute/graphspecter).           *)
(*                                                                         *)
(*  SpecTransport : one SendGraphQLRequestWithContext call followed by the *)
(*                  classification of IsGraphQLEndpointWithContext         *)
(*  SpecDiscover  : DetectAllGraphQLEndpointsWithContext, its workers,     *)
(*                  closer and collector, and its two callers              *)
(*  SpecAudit     : AuditEndpoints over a list of target URLs              *)
(***************************************************************************)
EXTENDS Integers, Sequences, FiniteSets, TLC

(***************************************************************************)
(* Bounds of the model.                                                    *)
(***************************************************************************)
\* number of candidate paths probed (a prefix of CommonPaths)
NumPaths == 2
\* number of target URLs handed to AuditEndpoints
MaxTargets == 2
\* wrappers around a terminal type reference
MaxWrap == 3
\* largest --max-depth tried besides the default
MaxDepth == 3
\* the depth budget part_001 passes to the walk (lines 349, 395)
DefaultMaxDepth == 10
\* part_001 285: a type may be on the recursion path this many times
VisitCeiling == 2
\* the names one run of GenerateAndPrintOperations is given
MaxCalls == 2
\* events a server sends on one subscription
MaxFrames == 2

(***************************************************************************)
(* JSON values as decoded by encoding/json into interface{}: tagged        *)
(* records.  A Go map index of a missing key and a failed type assertion   *)
(* both yield "not ok", which Get/IsObj/IsArr/IsStr reproduce.             *)
(***************************************************************************)
JNull == [t |-> "null"]
JStr(s) == [t |-> "str", s |-> s]
JNum(n) == [t |-> "num", n |-> n]
JArr(a) == [t |-> "arr", a |-> a]
JObj(o) == [t |-> "obj", o |-> o]
\* a body that is not JSON at all
JInvalid == [t |-> "invalid"]

IsObj(v) == v.t = "obj"
IsArr(v) == v.t = "arr"
IsStr(v) == v.t = "str"
\* m[k] on a map[string]interface{}: nil for an absent key and for a nil map
Get(v, k) == IF IsObj(v) /\ k \in DOMAIN v.o THEN v.o[k] ELSE JNull

(***************************************************************************)
(* Error messages are sequences of tokens, so that strings.Contains on     *)
(* err.Error() is computed and not assumed.                                *)
(***************************************************************************)
Contains(msg, sub) ==
    \E i \in 1..(Len(msg) - Len(sub) + 1) : SubSeq(msg, i, i + Len(sub) - 1) = sub

\* strings.ToLower on the tokens that occur in Content-Type values
ToLowerTok(tok) ==
    CASE tok = "JSON" -> "json"
      [] tok = "Application" -> "application"
      [] tok = "Text" -> "text"
      [] tok = "HTML" -> "html"
      [] OTHER -> tok

ToLower(s) == [i \in 1..Len(s) |-> ToLowerTok(s[i])]

containsSubstring(s, substring) == Contains(ToLower(s), ToLower(substring))

NoErr == [kind |-> "nil", msg |-> <<>>]
MkErr(kind, msg) == [kind |-> kind, msg |-> msg]

\* texts produced by net/http for a failed client.Do (wrapped with %w)
CtxText(e) ==
    IF e = "Canceled" THEN <<"Post", "URL", ":", "context", "canceled">>
    ELSE <<"Post", "URL", ":", "context", "deadline", "exceeded">>

NetTexts ==
    { <<"Post", "URL", ":", "dial", "tcp", ":", "connect", ":", "connection", "refused">>,
      <<"Post", "URL", ":", "dial", "tcp", ":", "lookup", "host", ":", "no", "such", "host">>,
      <<"Post", "URL", ":", "context", "deadline", "exceeded", "(", "Client.Timeout",
        "exceeded", "while", "awaiting", "headers", ")">> }

\* texts produced by io.ReadAll on a broken body
ReadCtxText(e) ==
    IF e = "Canceled" THEN <<"context", "canceled">>
    ELSE <<"context", "deadline", "exceeded">>

ReadTexts == { <<"unexpected", "EOF">> }

(***************************************************************************)
(* Responses: a Content-Type header value and a body.  first is body[0]    *)
(* ("" for an empty body), parsed is what json.Unmarshal would decode.     *)
(***************************************************************************)
CTJson == <<"application", "/", "json">>
CTJsonUpper == <<"Application", "/", "JSON">>
CTHtml == <<"text", "/", "html">>
CTPlain == <<"text", "/", "plain">>
CTNone == <<>>

MkBody(first, parsed) == [first |-> first, parsed |-> parsed]
MkResp(ctype, body) == [ctype |-> ctype, body |-> body]

BodyHtml == MkBody("<", JInvalid)
BodyGarbage == MkBody("x", JInvalid)
BodyEmpty == MkBody("", JInvalid)
BodyArray == MkBody("[", JArr(<<JNum(1)>>))
BodyNull == MkBody("n", JNull)

ApolloMsg == "Directive \"@skip\" argument \"if\" of type \"Boolean!\" is required"

ErrItem(m) == JObj([message |-> JStr(m)])
TypesItem == JObj([name |-> JStr("Query")])

\* the GraphQL envelopes the servers of the model answer with
Envelopes ==
    { JObj([data |-> JObj([__typename |-> JStr("Query")])]),
      JObj([data |-> JObj([__typename |-> JStr("QueryRoot")])]),
      JObj([data |-> JObj([__typename |-> JStr("query_root")])]),
      JObj([data |-> JObj([__typename |-> JStr("Mutation")])]),
      JObj([data |-> JObj([__typename |-> JNum(1)])]),
      JObj([data |-> JObj([__typename |-> JStr("Mutation")]),
            errors |-> JArr(<<ErrItem("partial")>>)]),
      JObj([data |-> JStr("Query")]),
      JObj([data |-> JNull, errors |-> JArr(<<ErrItem(ApolloMsg)>>)]),
      JObj([errors |-> JArr(<<ErrItem("Cannot query field")>>)]),
      JObj([errors |-> JArr(<<>>)]),
      JObj([errors |-> JStr("boom")]),
      JObj([errors |-> JObj([message |-> JStr("boom")])]),
      JObj([data |-> JObj([__schema |-> JObj([types |-> JArr(<<>>)])])]),
      JObj([data |-> JObj([__schema |-> JObj([types |-> JArr(<<TypesItem>>)])])]),
      JObj([data |-> JObj([__schema |-> JObj([types |-> JStr("x")])])]),
      JObj([data |-> JObj([__schema |-> JArr(<<TypesItem>>)])]),
      JObj([data |-> JObj([__schema |-> JNull])]),
      JObj([data |-> JArr(<<TypesItem>>)]),
      JObj([status |-> JStr("ok")]) }

JsonBodies == { MkBody("{", e) : e \in Envelopes }

Bodies == JsonBodies \cup {BodyHtml, BodyGarbage, BodyEmpty, BodyArray, BodyNull}

ContentTypes == {CTJson, CTJsonUpper, CTHtml, CTPlain, CTNone}

Responses == { MkResp(ct, b) : ct \in ContentTypes, b \in Bodies }

(***************************************************************************)
(* SendGraphQLRequestWithContext, branch by branch.  A return value is     *)
(* [result, err]; kind names the return statement that built the error.    *)
(***************************************************************************)
MkRet(result, err) == [result |-> result, err |-> err]
NoRet == [result |-> JNull, err |-> MkErr("unset", <<>>)]

\* json.Unmarshal(body, &result) with result of type map[string]interface{}
UnmarshalOk(body) == body.parsed.t \in {"obj", "null"}

UnmarshalText(body) ==
    IF body.first = "" THEN <<"unexpected", "end", "of", "JSON", "input">>
    ELSE IF body.parsed.t = "invalid"
         THEN <<"invalid", "character", body.first, "looking", "for", "beginning",
                "of", "value">>
         ELSE <<"json", ":", "cannot", "unmarshal", body.parsed.t, "into", "Go",
                "value", "of", "type", "map[string]interface {}">>

ErrCanceled ==
    MkErr("Canceled", <<"request", "canceled", "by", "user", "or", "another",
                        "operation", "completed", "first">>)
ErrTimedOut ==
    MkErr("TimedOut", <<"request", "timed", "out", ",", "consider", "increasing",
                        "timeout">>)
ErrNetwork(under) == MkErr("NetworkError", <<"error", "sending", "request", ":">> \o under)
ErrRead(under) == MkErr("ReadError", <<"error", "reading", "response", ":">> \o under)
ErrNonJSON(ct) ==
    MkErr("NonJSONResponse",
          <<"non-JSON", "response", "received", "(", "Content-Type", ":">> \o ct \o <<")">>)
ErrHTML ==
    MkErr("HTMLResponse", <<"HTML", "response", "received", "instead", "of",
                            "expected", "JSON">>)
ErrParse(under) == MkErr("ParseError", <<"error", "parsing", "response", ":">> \o under)

\* client.go 85-96: client.Do failed with `under`; ctx.Err() is ctxErr
ClassifyDoError(ctxErr, under) ==
    IF ctxErr = "Canceled" THEN MkRet(JNull, ErrCanceled)
    ELSE IF ctxErr = "DeadlineExceeded" THEN MkRet(JNull, ErrTimedOut)
    ELSE MkRet(JNull, ErrNetwork(under))

\* client.go 99-103: io.ReadAll failed with `under`
ClassifyReadError(under) == MkRet(JNull, ErrRead(under))

\* client.go 105-124: the body has been read
ClassifyResponseNoContentType(resp) ==
    IF ~UnmarshalOk(resp.body)
    THEN IF resp.body.first = "<"
         THEN MkRet(JNull, ErrHTML)
         ELSE MkRet(JNull, ErrParse(UnmarshalText(resp.body)))
    ELSE MkRet(resp.body.parsed, NoErr)

ClassifyResponse(resp) ==
    IF resp.ctype # <<>> /\ ~containsSubstring(resp.ctype, <<"json">>)
    THEN MkRet(JNull, ErrNonJSON(resp.ctype))
    ELSE IF ~UnmarshalOk(resp.body)
         THEN IF resp.body.first # "" /\ resp.body.first = "<"
              THEN MkRet(JNull, ErrHTML)
              ELSE MkRet(JNull, ErrParse(UnmarshalText(resp.body)))
         ELSE MkRet(resp.body.parsed, NoErr)

(***************************************************************************)
(* IsGraphQLEndpointWithContext after its SendGraphQLRequestWithContext    *)
(* call returned ret: client.go 288-316.  A probe result is [isValid, err].*)
(***************************************************************************)
MkProbe(isValid, err) == [isValid |-> isValid, err |-> err]
NoProbe == [isValid |-> FALSE, err |-> MkErr("unset", <<>>)]

RootNames == {"Query", "QueryRoot", "query_root"}

TypenameMatches(result) ==
    LET data == Get(result, "data")
        typename == Get(data, "__typename")
    IN  IsObj(data) /\ IsStr(typename) /\ typename.s \in RootNames

ErrorsNonEmpty(result) ==
    LET errors == Get(result, "errors")
    IN  IsArr(errors) /\ Len(errors.a) > 0

SoftMessage(msg) ==
    \/ Contains(msg, <<"HTML", "response">>)
    \/ Contains(msg, <<"non-JSON", "response">>)
    \/ Contains(msg, <<"canceled">>)
    \/ Contains(msg, <<"timed", "out">>)

ProbeClassifyNoSoft(ret) ==
    IF ret.err.kind # "nil"
    THEN MkProbe(FALSE, ret.err)
    ELSE IF TypenameMatches(ret.result) \/ ErrorsNonEmpty(ret.result)
         THEN MkProbe(TRUE, NoErr)
         ELSE MkProbe(FALSE, NoErr)

ProbeClassifyAnyErrors(ret) ==
    IF ret.err.kind # "nil"
    THEN IF SoftMessage(ret.err.msg) THEN MkProbe(FALSE, NoErr) ELSE MkProbe(FALSE, ret.err)
    ELSE IF TypenameMatches(ret.result) \/ IsArr(Get(ret.result, "errors"))
         THEN MkProbe(TRUE, NoErr)
         ELSE MkProbe(FALSE, NoErr)

ProbeClassify(ret) ==
    IF ret.err.kind # "nil"
    THEN IF SoftMessage(ret.err.msg) THEN MkProbe(FALSE, NoErr) ELSE MkProbe(FALSE, ret.err)
    ELSE IF TypenameMatches(ret.result)
         THEN MkProbe(TRUE, NoErr)
         ELSE IF ErrorsNonEmpty(ret.result)
              THEN MkProbe(TRUE, NoErr)
              ELSE MkProbe(FALSE, NoErr)

(***************************************************************************)
(* IsIntrospectionEnabled: root.go 174-185.                                *)
(***************************************************************************)
IsIntrospectionEnabledAnyArray(response) ==
    LET data == Get(response, "data")
        schema == Get(data, "__schema")
    IN  IsObj(data) /\ IsObj(schema) /\ IsArr(Get(schema, "types"))

IsIntrospectionEnabled(response) ==
    LET data == Get(response, "data")
        schema == Get(data, "__schema")
        types == Get(schema, "types")
    IN  IF ~IsObj(data) THEN FALSE
        ELSE IF ~IsObj(schema) THEN FALSE
        ELSE IsArr(types) /\ Len(types.a) > 0


(***************************************************************************)
(* State.                                                                  *)
(***************************************************************************)
VARIABLES
    \* --- one SendGraphQLRequestWithContext call and the probe around it ---
    tpc,          \* position in the call: do, doerr, read, classify, returned, probed
    tctx,         \* ctx.Err() of the supplied context: none, Canceled, DeadlineExceeded
    tcancelAt,    \* position at which the context became done ("never" if it did not)
    tvia,         \* which branch built the return value: do, read, classify
    tresp,        \* the response received by client.Do
    tunder,       \* the error text client.Do failed with
    tret,         \* what SendGraphQLRequestWithContext returned
    pret,         \* what IsGraphQLEndpointWithContext returned
    pold,         \* what the context-free IsGraphQLEndpoint returns on the same reply
    \* --- DetectAllGraphQLEndpointsWithContext ---
    stopOnFirst,      \* the mode argument
    parent,           \* the caller's context: active, canceled, expired
    ctxErr,           \* ctx.Err() of the derived cancellable context
    cancelledBy,      \* who made ctx done first: 0 nobody, -1 parent/defer, w a worker
    wpc,              \* per worker: start, probing, send, cancel, done
    wout,             \* per worker: outcome of its probe
    checkedEndpoints, \* the shared counter
    incAt,            \* per worker: counter value right after its increment (0: none)
    resultChan,       \* buffered channel contents
    chanClosed,       \* close(resultChan) has run
    cpc,              \* collector: collect, DONE, returned, finished
    results,          \* the collector's results slice
    hbLow,            \* number of increments ordered before the collector's position
    seenChecked,      \* value of checkedEndpoints the collector read at DONE (-1: none)
    checkedAtReturn,  \* value the counter really had at that moment (-1: none)
    dret,             \* what DetectAllGraphQLEndpointsWithContext returned
    caller,           \* what the caller made of it
    \* --- AuditEndpoints ---
    atargets,     \* targetURLs
    aidx,         \* index of the next target of the loop
    actx,         \* ctx.Err() of timeoutCtx
    aresp,        \* what CheckIntrospectionWithContext returned for the last target
    alog,         \* per-target log events, in order
    afiles,       \* files written: name -> target whose result it holds
    introspectionEnabled,
    lastSet,      \* lastIntrospectionResult != nil
    asummary,     \* the summary line logged at the end
    amain,        \* the main that runs the audit, and whether --detect was given
    \* --- DetectEngineWithContext ---
    fvia,         \* entry point: DetectEngine (own 10 s deadline) or DetectEngineWithContext
    fparent,      \* the caller's context: active, canceled, expired
    fctxErr,      \* ctx.Err() of the derived cancellable context
    fdpc,         \* Apollo detector goroutine: start, send, cancel, done
    fres,         \* what the detector's SendGraphQLRequestWithContext returned
    fdet,         \* what DetectApolloWithContext returned
    fold,         \* what the sequential DetectEngine returns on the same reply
    fchan,        \* resultChan
    fcpc,         \* the caller's goroutine: select, recheck, returned
    fret,         \* what DetectEngineWithContext returned
    fliveMatch,   \* the detector matched while the caller's context was live
    \* --- schema loading and query/mutation synthesis ---
    sfile,        \* the schema file given to LoadFromFile
    sload,        \* what LoadFromFile returned
    slist,        \* what ListQueries and ListMutations returned
    spc,          \* load, failed, loaded, ready, walk, done
    gop,          \* the synthesis call: kind, field name, depth budget
    gstack,       \* frames of generateSelectionSetWithCount, innermost last
    visited,      \* the visit counter map of the call
    gout,         \* the document built so far and the error of the call
    gdocs,        \* the results of the earlier calls of the loop over the names
    \* --- unwrapType ---
    uin,          \* the type reference given: its wrappers and its terminal node
    ures,         \* what unwrapType returned
    \* --- subscription client ---
    srv,          \* how the WebSocket server behaves
    squery,       \* the subscription query
    subpc,        \* dial, init, read, sub, returned, listen, stopped, exit1
    msgIdx,       \* index of the current dialect in msgTypes
    socks,        \* the socket of each attempt, as the client sees it
    peer,         \* the server's end of each socket
    lastErr,      \* lastErr of SubscribeToQuery
    subret,       \* what SubscribeToQuery returned
    lastRead,     \* outcome of the last read of Listen
    \* --- logger and main ---
    cfg,          \* the parsed command line
    mpc,          \* position of main
    currentLevel, \* logger.currentLevel
    logOut,       \* the entries written to the log output
    exitCode,     \* exit status of the process (-1: running)
    fatalCalls,   \* calls of logger.Fatal so far
    sentTo        \* the URLs requests were sent to

tvars == <<tpc, tctx, tcancelAt, tvia, tresp, tunder, tret, pret, pold>>
dvars == <<stopOnFirst, parent, ctxErr, cancelledBy, wpc, wout, checkedEndpoints, incAt,
           resultChan, chanClosed, cpc, results, hbLow,
           seenChecked, checkedAtReturn, dret, caller>>
avars == <<atargets, aidx, actx, aresp, alog, afiles, introspectionEnabled, lastSet,
           asummary, amain>>
fvars == <<fvia, fparent, fctxErr, fdpc, fres, fdet, fold, fchan, fcpc, fret, fliveMatch>>
svars == <<sfile, sload, slist, spc, gop, gstack, visited, gout, gdocs>>
uvars == <<uin, ures>>
wvars == <<srv, squery, subpc, msgIdx, socks, peer, lastErr, subret, lastRead>>
mvars == <<cfg, mpc, currentLevel, logOut, exitCode, fatalCalls, sentTo>>
vars == <<tvars, dvars, avars, fvars, svars, uvars, wvars, mvars>>

NoResp == [status |-> 0, ctype |-> <<>>, body |-> BodyEmpty]

(***************************************************************************)
(* Transport: SendGraphQLRequestWithContext step by step (client.go 58-125)*)
(* followed by IsGraphQLEndpointWithContext's classification.             *)
(***************************************************************************)
\* the supplied context is cancelled while the call is in progress
TCancel ==
    /\ tpc \in {"do", "doerr", "read", "classify"}
    /\ tctx = "none"
    /\ tctx' = "Canceled"
    /\ tcancelAt' = tpc
    /\ UNCHANGED <<tpc, tvia, tresp, tunder, tret, pret, pold>>
    /\ UNCHANGED <<dvars, avars, fvars, svars, uvars, wvars, mvars>>

\* the deadline of the supplied context elapses while the call is in progress
TExpire ==
    /\ tpc \in {"do", "doerr", "read", "classify"}
    /\ tctx = "none"
    /\ tctx' = "DeadlineExceeded"
    /\ tcancelAt' = tpc
    /\ UNCHANGED <<tpc, tvia, tresp, tunder, tret, pret, pold>>
    /\ UNCHANGED <<dvars, avars, fvars, svars, uvars, wvars, mvars>>

\* client.Do returns a response (line 84, err == nil)
DoOK ==
    /\ tpc = "do"
    /\ tctx = "none"
    /\ \E st \in {200, 404}, r \in Responses :
           tresp' = [status |-> st, ctype |-> r.ctype, body |-> r.body]
    /\ tpc' = "read"
    /\ UNCHANGED <<tctx, tcancelAt, tvia, tunder, tret, pret, pold>>
    /\ UNCHANGED <<dvars, avars, fvars, svars, uvars, wvars, mvars>>

\* client.Do fails (line 84, err != nil): with the context's error once the
\* context is done, with a transport failure otherwise
DoFail ==
    /\ tpc = "do"
    /\ \E u \in (IF tctx = "none" THEN NetTexts ELSE {CtxText(tctx)}) : tunder' = u
    /\ tpc' = "doerr"
    /\ UNCHANGED <<tctx, tcancelAt, tvia, tresp, tret, pret, pold>>
    /\ UNCHANGED <<dvars, avars, fvars, svars, uvars, wvars, mvars>>

\* lines 85-96
DoErrReturn ==
    /\ tpc = "doerr"
    /\ tret' = ClassifyDoError(tctx, tunder)
    /\ tvia' = "do"
    /\ tpc' = "returned"
    /\ UNCHANGED <<tctx, tcancelAt, tresp, tunder, pret, pold>>
    /\ UNCHANGED <<dvars, avars, fvars, svars, uvars, wvars, mvars>>

\* io.ReadAll succeeds (line 99); a body that was read before the context
\* became done is this step followed by TCancel or TExpire
ReadOK ==
    /\ tpc = "read"
    /\ tctx = "none"
    /\ tpc' = "classify"
    /\ UNCHANGED <<tctx, tcancelAt, tvia, tresp, tunder, tret, pret, pold>>
    /\ UNCHANGED <<dvars, avars, fvars, svars, uvars, wvars, mvars>>

\* io.ReadAll fails (lines 100-103): the body read is aborted by the context
\* once it is done, by the connection otherwise
ReadFail ==
    /\ tpc = "read"
    /\ \E u \in (IF tctx = "none" THEN ReadTexts ELSE {ReadCtxText(tctx)}) :
           tret' = ClassifyReadError(u)
    /\ tvia' = "read"
    /\ tpc' = "returned"
    /\ UNCHANGED <<tctx, tcancelAt, tresp, tunder, pret, pold>>
    /\ UNCHANGED <<dvars, avars, fvars, svars, uvars, wvars, mvars>>

\* lines 105-124
RespReturn ==
    /\ tpc = "classify"
    /\ tret' = ClassifyResponse([ctype |-> tresp.ctype, body |-> tresp.body])
    /\ tvia' = "classify"
    /\ tpc' = "returned"
    /\ UNCHANGED <<tctx, tcancelAt, tresp, tunder, pret, pold>>
    /\ UNCHANGED <<dvars, avars, fvars, svars, uvars, wvars, mvars>>

\* the context-free IsGraphQLEndpoint of the first version (part_001 84-103)
IsGraphQLEndpoint(ret) ==
    IF ret.err.kind # "nil" THEN FALSE
    ELSE IF TypenameMatches(ret.result) THEN TRUE
    ELSE ErrorsNonEmpty(ret.result)

\* IsGraphQLEndpointWithContext classifies what the call returned
Probe ==
    /\ tpc = "returned"
    /\ pret' = ProbeClassify(tret)
    /\ pold' = IsGraphQLEndpoint(tret)
    /\ tpc' = "probed"
    /\ UNCHANGED <<tctx, tcancelAt, tvia, tresp, tunder, tret>>
    /\ UNCHANGED <<dvars, avars, fvars, svars, uvars, wvars, mvars>>

TNext ==
    \/ TCancel
    \/ TExpire
    \/ DoOK
    \/ DoFail
    \/ DoErrReturn
    \/ ReadOK
    \/ ReadFail
    \/ RespReturn
    \/ Probe


(***************************************************************************)
(* Discovery: DetectAllGraphQLEndpointsWithContext (client.go 151-241).    *)
(***************************************************************************)
Workers == 1..NumPaths

\* the first entries of CommonPaths (client.go 19-44)
CommonPaths == <<"/", "/graphql", "/graphiql", "/v1/graphql", "/v2/graphql", "/v3/graphql">>

\* endpoint := baseURL + p (line 179)
Endpoint(w) == <<"baseURL", CommonPaths[w]>>

EndpointOwner(e) == CHOOSE w \in Workers : Endpoint(w) = e

Max(a, b) == IF a >= b THEN a ELSE b

\* What the server answers on a candidate path, and how the call ends.
RespPositive == MkResp(CTJson, MkBody("{", JObj([data |-> JObj([__typename |-> JStr("Query")])])))
RespNegative == MkResp(CTJson, MkBody("{", JObj([status |-> JStr("ok")])))
RespHtmlPage == MkResp(CTHtml, BodyHtml)
RespBareHtml == MkResp(CTNone, BodyHtml)
RespGarbage == MkResp(CTNone, BodyGarbage)
ConnRefused ==
    <<"Post", "URL", ":", "dial", "tcp", ":", "connect", ":", "connection", "refused">>

MkScenario(do, under, resp, read, runder) ==
    [do |-> do, under |-> under, resp |-> resp, read |-> read, runder |-> runder]

\* the ways one probe's request can end while ctx.Err() is e
Scenarios(e) ==
    { MkScenario("ok", <<>>, r, "ok", <<>>) :
          r \in {RespPositive, RespNegative, RespHtmlPage, RespBareHtml, RespGarbage} }
    \cup { MkScenario("fail", ConnRefused, NoResp, "none", <<>>) }
    \cup (IF e = "none" THEN {}
          ELSE { MkScenario("fail", CtxText(e), NoResp, "none", <<>>),
                 MkScenario("ok", <<>>, RespPositive, "fail", ReadCtxText(e)) })

\* SendGraphQLRequestWithContext as a function of how the request ends
SendResult(e, sc) ==
    IF sc.do = "fail" THEN ClassifyDoError(e, sc.under)
    ELSE IF sc.read = "fail" THEN ClassifyReadError(sc.runder)
    ELSE ClassifyResponse(sc.resp)

\* IsGraphQLEndpointWithContext (client.go 285-317)
IsGraphQLEndpointWithContext(e, sc) == ProbeClassify(SendResult(e, sc))

MkOut(kind, isValid, failed) == [kind |-> kind, isValid |-> isValid, failed |-> failed]
NoOut == MkOut("unset", FALSE, FALSE)
Skipped == MkOut("skipped", FALSE, FALSE)

ErrUnable == "unable to check any GraphQL endpoints"
ErrNotDetected == "GraphQL endpoint not detected on any common paths"
ErrDetectionFailed == "Detection failed"
ErrNoneDetected == "No GraphQL endpoints detected"

MkDRet(res, err) == [results |-> res, err |-> err]
NoDRet == MkDRet(<<>>, "unset")
NoCaller == [fn |-> "none", targets |-> <<>>, err |-> "unset"]

\* the caller's context is cancelled (interrupt) before the call returned
ParentCancel ==
    /\ cpc \in {"collect", "DONE"}
    /\ parent = "active"
    /\ parent' = "canceled"
    /\ ctxErr' = IF ctxErr = "none" THEN "Canceled" ELSE ctxErr
    /\ cancelledBy' = IF ctxErr = "none" THEN -1 ELSE cancelledBy
    /\ UNCHANGED <<stopOnFirst, wpc, wout, checkedEndpoints, incAt, resultChan, chanClosed,
                   cpc, results, hbLow, seenChecked, checkedAtReturn, dret, caller>>
    /\ UNCHANGED <<tvars, avars, fvars, svars, uvars, wvars, mvars>>

\* the caller's deadline elapses before the call returned
ParentExpire ==
    /\ cpc \in {"collect", "DONE"}
    /\ parent = "active"
    /\ parent' = "expired"
    /\ ctxErr' = IF ctxErr = "none" THEN "DeadlineExceeded" ELSE ctxErr
    /\ cancelledBy' = IF ctxErr = "none" THEN -1 ELSE cancelledBy
    /\ UNCHANGED <<stopOnFirst, wpc, wout, checkedEndpoints, incAt, resultChan, chanClosed,
                   cpc, results, hbLow, seenChecked, checkedAtReturn, dret, caller>>
    /\ UNCHANGED <<tvars, avars, fvars, svars, uvars, wvars, mvars>>

\* lines 175-178: the worker's select on ctx.Done() with a default branch
WorkerStart(w) ==
    /\ wpc[w] = "start"
    /\ IF ctxErr # "none"
       THEN /\ wpc' = [wpc EXCEPT ![w] = "done"]
            /\ wout' = [wout EXCEPT ![w] = Skipped]
       ELSE /\ wpc' = [wpc EXCEPT ![w] = "probing"]
            /\ wout' = wout
    /\ UNCHANGED <<stopOnFirst, parent, ctxErr, cancelledBy, checkedEndpoints, incAt,
                   resultChan, chanClosed, cpc, results, hbLow,
                   seenChecked, checkedAtReturn, dret, caller>>
    /\ UNCHANGED <<tvars, avars, fvars, svars, uvars, wvars, mvars>>

\* where a worker goes after its probe returned (lines 187-200)
AfterProbe(pr) ==
    IF pr.err.kind # "nil" THEN "done"
    ELSE IF pr.isValid THEN "send"
    ELSE "done"

\* lines 181-192: the probe returns, the counter is incremented under the
\* mutex, and the worker branches on (isValid, err).  The increment is the
\* step's only shared access; what the collector's unlocked read may still
\* miss of it is modelled at Return.
ProbeReturn(w) ==
    /\ wpc[w] = "probing"
    /\ \E sc \in Scenarios(ctxErr) :
          LET ret == SendResult(ctxErr, sc)
              pr == IsGraphQLEndpointWithContext(ctxErr, sc)
          IN  /\ wout' = [wout EXCEPT ![w] = MkOut(ret.err.kind, pr.isValid, pr.err.kind # "nil")]
              /\ wpc' = [wpc EXCEPT ![w] = AfterProbe(pr)]
    /\ checkedEndpoints' = checkedEndpoints + 1
    /\ incAt' = [incAt EXCEPT ![w] = checkedEndpoints + 1]
    /\ UNCHANGED <<stopOnFirst, parent, ctxErr, cancelledBy, resultChan, chanClosed, cpc,
                   results, hbLow, seenChecked, checkedAtReturn, dret, caller>>
    /\ UNCHANGED <<tvars, avars, fvars, svars, uvars, wvars, mvars>>

\* the worker's decision to cancel after a send (line 197)
CancelsAfterSendAlways(mode) == TRUE

CancelsAfterSend(mode) == mode

\* line 194: resultChan <- endpoint (capacity len(CommonPaths))
WorkerSend(w) ==
    /\ wpc[w] = "send"
    /\ ~chanClosed
    /\ Len(resultChan) < NumPaths
    /\ resultChan' = Append(resultChan, Endpoint(w))
    /\ wpc' = [wpc EXCEPT ![w] = IF CancelsAfterSend(stopOnFirst) THEN "cancel" ELSE "done"]
    /\ UNCHANGED <<stopOnFirst, parent, ctxErr, cancelledBy, wout, checkedEndpoints, incAt,
                   chanClosed, cpc, results, hbLow, seenChecked, checkedAtReturn, dret, caller>>
    /\ UNCHANGED <<tvars, avars, fvars, svars, uvars, wvars, mvars>>

\* line 198: cancel()
WorkerCancel(w) ==
    /\ wpc[w] = "cancel"
    /\ ctxErr' = IF ctxErr = "none" THEN "Canceled" ELSE ctxErr
    /\ cancelledBy' = IF ctxErr = "none" THEN w ELSE cancelledBy
    /\ wpc' = [wpc EXCEPT ![w] = "done"]
    /\ UNCHANGED <<stopOnFirst, parent, wout, checkedEndpoints, incAt, resultChan,
                   chanClosed, cpc, results, hbLow, seenChecked, checkedAtReturn, dret, caller>>
    /\ UNCHANGED <<tvars, avars, fvars, svars, uvars, wvars, mvars>>

\* a closer that waits for one worker only
CloserEarly ==
    /\ ~chanClosed
    /\ \E w \in Workers : wpc[w] = "done"
    /\ chanClosed' = TRUE
    /\ UNCHANGED <<stopOnFirst, parent, ctxErr, cancelledBy, wpc, wout, checkedEndpoints,
                   incAt, resultChan, cpc, results, hbLow,
                   seenChecked, checkedAtReturn, dret, caller>>
    /\ UNCHANGED <<tvars, avars, fvars, svars, uvars, wvars, mvars>>

\* lines 206-209: wg.Wait(); close(resultChan)
Closer ==
    /\ ~chanClosed
    /\ \A w \in Workers : wpc[w] = "done"
    /\ chanClosed' = TRUE
    /\ UNCHANGED <<stopOnFirst, parent, ctxErr, cancelledBy, wpc, wout, checkedEndpoints,
                   incAt, resultChan, cpc, results, hbLow,
                   seenChecked, checkedAtReturn, dret, caller>>
    /\ UNCHANGED <<tvars, avars, fvars, svars, uvars, wvars, mvars>>

\* the collector's decision to stop after appending a result (line 225)
StopsAfterResultNever(mode) == FALSE

StopsAfterResult(mode) == mode

\* lines 217-228, ok = true: a result is received
CollectRecv ==
    /\ cpc = "collect"
    /\ Len(resultChan) > 0
    /\ LET result == Head(resultChan)
       IN  /\ hbLow' = Max(hbLow, incAt[EndpointOwner(result)])
           /\ IF result # <<>>
              THEN /\ results' = Append(results, result)
                   /\ cpc' = IF StopsAfterResult(stopOnFirst) THEN "DONE" ELSE "collect"
              ELSE /\ results' = results
                   /\ cpc' = "collect"
    /\ resultChan' = Tail(resultChan)
    /\ UNCHANGED <<stopOnFirst, parent, ctxErr, cancelledBy, wpc, wout, checkedEndpoints,
                   incAt, chanClosed, seenChecked, checkedAtReturn, dret, caller>>
    /\ UNCHANGED <<tvars, avars, fvars, svars, uvars, wvars, mvars>>

\* lines 217-221, ok = false: the channel is closed and drained
CollectClosed ==
    /\ cpc = "collect"
    /\ Len(resultChan) = 0
    /\ chanClosed
    /\ hbLow' = checkedEndpoints
    /\ cpc' = "DONE"
    /\ UNCHANGED <<stopOnFirst, parent, ctxErr, cancelledBy, wpc, wout, checkedEndpoints,
                   incAt, resultChan, chanClosed, results,
                   seenChecked, checkedAtReturn, dret, caller>>
    /\ UNCHANGED <<tvars, avars, fvars, svars, uvars, wvars, mvars>>

\* lines 229-231: the select takes the ctx.Done() case; select chooses among
\* its ready cases at random, so this is enabled whenever ctx is done
CollectCtxDone ==
    /\ cpc = "collect"
    /\ ctxErr # "none"
    /\ hbLow' = IF cancelledBy \in Workers THEN Max(hbLow, incAt[cancelledBy]) ELSE hbLow
    /\ cpc' = "DONE"
    /\ UNCHANGED <<stopOnFirst, parent, ctxErr, cancelledBy, wpc, wout, checkedEndpoints,
                   incAt, resultChan, chanClosed, results,
                   seenChecked, checkedAtReturn, dret, caller>>
    /\ UNCHANGED <<tvars, avars, fvars, svars, uvars, wvars, mvars>>

\* lines 235-240 for the value `seen` read from checkedEndpoints
DoneResult(seen, res) ==
    IF seen = 0 THEN MkDRet(<<>>, ErrUnable) ELSE MkDRet(res, "nil")

\* DONE: checkedEndpoints is read without the mutex; the read yields the
\* value of some increment not ordered before the collector's position.
\* The deferred cancel() of line 160 runs on return.
Return ==
    /\ cpc = "DONE"
    /\ \E seen \in hbLow..checkedEndpoints :
          /\ seenChecked' = seen
          /\ checkedAtReturn' = checkedEndpoints
          /\ dret' = DoneResult(seen, results)
    /\ cpc' = "returned"
    /\ ctxErr' = IF ctxErr = "none" THEN "Canceled" ELSE ctxErr
    /\ cancelledBy' = IF ctxErr = "none" THEN -1 ELSE cancelledBy
    /\ UNCHANGED <<stopOnFirst, parent, wpc, wout, checkedEndpoints, incAt, resultChan,
                   chanClosed, results, hbLow, caller>>
    /\ UNCHANGED <<tvars, avars, fvars, svars, uvars, wvars, mvars>>

\* DetectGraphQLEndpointWithContext after its call returned (client.go 137-146)
DetectGraphQLEndpointWithContextNoError(ret) ==
    IF ret.err # "nil"
    THEN [fn |-> "DetectGraphQLEndpointWithContext", targets |-> <<>>, err |-> ret.err]
    ELSE [fn |-> "DetectGraphQLEndpointWithContext", targets |-> ret.results, err |-> "nil"]

DetectGraphQLEndpointWithContext(ret) ==
    IF ret.err # "nil"
    THEN [fn |-> "DetectGraphQLEndpointWithContext", targets |-> <<>>, err |-> ret.err]
    ELSE IF Len(ret.results) > 0
         THEN [fn |-> "DetectGraphQLEndpointWithContext", targets |-> <<ret.results[1]>>,
               err |-> "nil"]
         ELSE [fn |-> "DetectGraphQLEndpointWithContext", targets |-> <<>>,
               err |-> ErrNotDetected]

\* main's detection mode after its call returned (main.go 574-584)
MainDetect(ret) ==
    IF ret.err # "nil"
    THEN [fn |-> "main", targets |-> <<>>, err |-> ErrDetectionFailed]
    ELSE IF Len(ret.results) = 0
         THEN [fn |-> "main", targets |-> <<>>, err |-> ErrNoneDetected]
         ELSE [fn |-> "main", targets |-> ret.results, err |-> "nil"]

\* the stop-on-first caller
CallerDetectOne ==
    /\ cpc = "returned"
    /\ stopOnFirst
    /\ caller' = DetectGraphQLEndpointWithContext(dret)
    /\ cpc' = "finished"
    /\ UNCHANGED <<stopOnFirst, parent, ctxErr, cancelledBy, wpc, wout, checkedEndpoints,
                   incAt, resultChan, chanClosed, results, hbLow,
                   seenChecked, checkedAtReturn, dret>>
    /\ UNCHANGED <<tvars, avars, fvars, svars, uvars, wvars, mvars>>

\* the collect-all caller
CallerMain ==
    /\ cpc = "returned"
    /\ ~stopOnFirst
    /\ caller' = MainDetect(dret)
    /\ cpc' = "finished"
    /\ UNCHANGED <<stopOnFirst, parent, ctxErr, cancelledBy, wpc, wout, checkedEndpoints,
                   incAt, resultChan, chanClosed, results, hbLow,
                   seenChecked, checkedAtReturn, dret>>
    /\ UNCHANGED <<tvars, avars, fvars, svars, uvars, wvars, mvars>>

DNext ==
    \/ ParentCancel
    \/ ParentExpire
    \/ \E w \in Workers : WorkerStart(w)
    \/ \E w \in Workers : ProbeReturn(w)
    \/ \E w \in Workers : WorkerSend(w)
    \/ \E w \in Workers : WorkerCancel(w)
    \/ Closer
    \/ CollectRecv
    \/ CollectClosed
    \/ CollectCtxDone
    \/ Return
    \/ CallerDetectOne
    \/ CallerMain


(***************************************************************************)
(* Audit: AuditEndpoints (cli.go 130-175) over CheckIntrospectionWithContext*)
(* (root.go 153-171) and IsIntrospectionEnabled.                           *)
(***************************************************************************)
\* target URLs, as the path segments after the host
TargetURLs == { <<>>, <<"graphql">>, <<"v1", "graphql">>, <<"api">> }

TargetLists ==
    { l \in UNION { [1..n -> TargetURLs] : n \in 1..MaxTargets } :
        \A i, j \in DOMAIN l : i # j => l[i] # l[j] }

EnvTypes == JObj([data |-> JObj([__schema |-> JObj([types |-> JArr(<<TypesItem>>)])])])
EnvNoTypes == JObj([data |-> JObj([__schema |-> JObj([types |-> JArr(<<>>)])])])
EnvTypesNotArray == JObj([data |-> JObj([__schema |-> JObj([types |-> JStr("x")])])])
EnvSchemaArray == JObj([data |-> JObj([__schema |-> JArr(<<TypesItem>>)])])
EnvNoSchema == JObj([data |-> JObj([__typename |-> JStr("Query")])])
EnvErrorsOnly == JObj([errors |-> JArr(<<ErrItem("introspection is disabled")>>)])
EnvDataNull == JObj([data |-> JNull, errors |-> JArr(<<ErrItem("forbidden")>>)])

AuditEnvelopes ==
    {EnvTypes, EnvNoTypes, EnvTypesNotArray, EnvSchemaArray, EnvNoSchema, EnvErrorsOnly,
     EnvDataNull}

AuditResponses ==
    { MkResp(CTJson, MkBody("{", e)) : e \in AuditEnvelopes }
    \cup { MkResp(CTJson, BodyNull), MkResp(CTHtml, BodyHtml), MkResp(CTNone, BodyHtml),
           MkResp(CTNone, BodyGarbage) }

AuditScenarios(e) ==
    { MkScenario("ok", <<>>, r, "ok", <<>>) : r \in AuditResponses }
    \cup { MkScenario("fail", ConnRefused, NoResp, "none", <<>>) }
    \cup (IF e = "none" THEN {}
          ELSE { MkScenario("fail", CtxText(e), NoResp, "none", <<>>),
                 MkScenario("ok", <<>>, RespPositive, "fail", ReadCtxText(e)) })

ErrOpCanceled ==
    MkErr("Canceled", <<"operation", "canceled", "-", "either", "by", "user",
                        "interruption", "or", "another", "operation", "completed", "first">>)
ErrOpTimedOut ==
    MkErr("TimedOut", <<"request", "timed", "out", "-", "try", "increasing", "timeout",
                        "with", "the", "-timeout", "flag">>)

\* root.go 153-171
CheckIntrospectionWithContext(e, sc) ==
    LET ret == SendResult(e, sc)
    IN  IF ret.err.kind # "nil"
        THEN IF e = "Canceled" THEN MkRet(JNull, ErrOpCanceled)
             ELSE IF e = "DeadlineExceeded" THEN MkRet(JNull, ErrOpTimedOut)
             ELSE ret
        ELSE ret

\* cli.go 177-190 for a URL that url.Parse accepts: <base>_<suffix>.json
generateOutputFileName(defaultFile, targetURL) ==
    LET suffix == IF targetURL = <<>> THEN "root" ELSE targetURL[Len(targetURL)]
    IN  <<defaultFile, suffix>>

\* main.go 167-180, for a list of more than one target: the whole path after
\* the host, its segments joined by "_"
MainOutputName(outputFile, targetURL) ==
    IF targetURL = <<>> THEN <<outputFile, "root">> ELSE <<outputFile>> \o targetURL

\* cli.go 140-165: the events logged for one target, given what the check
\* returned and whether the file write succeeds
AuditEvents(ret, writeOK) ==
    IF ret.err.kind # "nil"
    THEN IF Contains(ret.err.msg, <<"HTML", "response">>)
            \/ Contains(ret.err.msg, <<"non-JSON", "response">>)
         THEN <<"not-graphql">>
         ELSE <<"error">>
    ELSE IF IsIntrospectionEnabled(ret.result)
         THEN IF writeOK THEN <<"enabled", "saved">> ELSE <<"enabled", "write-failed">>
         ELSE <<"disabled">>

\* the deadline of timeoutCtx elapses during the audit
AExpire ==
    /\ aidx >= 1
    /\ aidx <= Len(atargets)
    /\ actx = "none"
    /\ actx' = "DeadlineExceeded"
    /\ UNCHANGED <<atargets, aidx, aresp, alog, afiles, introspectionEnabled, lastSet,
                   asummary, amain>>
    /\ UNCHANGED <<tvars, dvars, fvars, svars, uvars, wvars, mvars>>

\* one iteration of the loop of lines 136-166 (in the main that audits
\* inline, of main.go 141-195, entered under the test of line 140)
AuditOne ==
    /\ aidx >= 1
    /\ aidx <= Len(atargets)
    /\ amain.version = "inline" => Len(atargets) > 1
    /\ \E sc \in AuditScenarios(actx), writeOK \in BOOLEAN :
          LET targetURL == atargets[aidx]
              ret == CheckIntrospectionWithContext(actx, sc)
              events == AuditEvents(ret, writeOK)
              outName == IF amain.version = "inline"
                         THEN MainOutputName("introspection", targetURL)
                         ELSE generateOutputFileName("introspection", targetURL)
              saved == events = <<"enabled", "saved">>
          IN  /\ aresp' = ret
              /\ alog' = Append(alog, [url |-> targetURL, events |-> events])
              /\ lastSet' = IF ret.err.kind = "nil" THEN ret.result.t # "null" ELSE lastSet
              /\ afiles' = IF saved
                           THEN Append(SelectSeq(afiles, LAMBDA f : f.name # outName),
                                       [name |-> outName, from |-> targetURL])
                           ELSE afiles
              /\ introspectionEnabled' = (introspectionEnabled \/ saved)
    /\ aidx' = aidx + 1
    /\ UNCHANGED <<atargets, actx, asummary, amain>>
    /\ UNCHANGED <<tvars, dvars, fvars, svars, uvars, wvars, mvars>>

\* lines 168-174
AuditSummary ==
    /\ aidx = Len(atargets) + 1
    /\ asummary = "none"
    /\ asummary' = IF introspectionEnabled THEN "enabled"
                   ELSE IF lastSet THEN "disabled-all"
                   ELSE "completed"
    /\ UNCHANGED <<atargets, aidx, actx, aresp, alog, afiles, introspectionEnabled, lastSet,
                   amain>>
    /\ UNCHANGED <<tvars, dvars, fvars, svars, uvars, wvars, mvars>>

ANext ==
    \/ AExpire
    \/ AuditOne
    \/ AuditSummary

\* main.go 140: `if len(targetURLs) > 1` is false and the loop is not entered
MainSkipAudit ==
    /\ amain.version = "inline"
    /\ aidx = 1
    /\ Len(atargets) <= 1
    /\ aidx' = Len(atargets) + 1
    /\ UNCHANGED <<atargets, actx, aresp, alog, afiles, introspectionEnabled, lastSet,
                   asummary, amain>>
    /\ UNCHANGED <<tvars, dvars, fvars, svars, uvars, wvars, mvars>>

\* the audit as main runs it: in a loop of its own (main.go 140-199) or by
\* calling AuditEndpoints (main.go 608)
MainAuditNext ==
    \/ ANext
    \/ MainSkipAudit

(***************************************************************************)
(* Engine fingerprinting (pkg/fingerprint/fingerprint.go).                 *)
(***************************************************************************)
\* a JSON string kept as its words, for values searched with strings.Contains
JText(w) == [t |-> "str", w |-> w]

\* fingerprint.go 83
expectedErrorSubstring ==
    <<"Directive", "\"@skip\"", "argument", "\"if\"", "of", "type", "\"Boolean!\"", "is",
      "required">>

\* the message Apollo answers `query @skip { __typename }` with
ApolloText == expectedErrorSubstring \o <<",", "but", "it", "was", "not", "provided.">>
PrefixedApolloText == <<"Validation", "error", ":">> \o ApolloText
IncludeText ==
    <<"Directive", "\"@include\"", "argument", "\"if\"", "of", "type", "\"Boolean!\"", "is",
      "required">>
TruncatedText == SubSeq(expectedErrorSubstring, 1, 8)
UnknownDirectiveText == <<"Unknown", "directive", "\"@skip\"">>

TextItem(w) == JObj([message |-> JText(w)])

FpEnvelopes ==
    { JObj([errors |-> JArr(<<TextItem(ApolloText)>>)]),
      JObj([errors |-> JArr(<<TextItem(PrefixedApolloText)>>)]),
      JObj([errors |-> JArr(<<TextItem(expectedErrorSubstring)>>)]),
      JObj([errors |-> JArr(<<TextItem(UnknownDirectiveText), TextItem(ApolloText)>>)]),
      JObj([errors |-> JArr(<<JText(ApolloText), TextItem(ApolloText)>>)]),
      JObj([data |-> JNull,
            errors |-> JArr(<<JObj([message |-> JText(ApolloText),
                                    extensions |-> JObj([code |-> JText(<<"X">>)])])>>)]),
      JObj([errors |-> JArr(<<TextItem(UnknownDirectiveText)>>)]),
      JObj([errors |-> JArr(<<TextItem(IncludeText)>>)]),
      JObj([errors |-> JArr(<<TextItem(TruncatedText)>>)]),
      JObj([errors |-> JArr(<<JText(ApolloText)>>)]),
      JObj([errors |-> JArr(<<JObj([message |-> JNum(1)])>>)]),
      JObj([errors |-> JArr(<<JObj([msg |-> JText(ApolloText)])>>)]),
      JObj([errors |-> JArr(<<>>)]),
      JObj([errors |-> TextItem(ApolloText)]),
      JObj([errors |-> JText(ApolloText)]),
      JObj([data |-> JObj([__typename |-> JText(<<"Query">>)])]),
      JObj([message |-> JText(ApolloText)]) }

FpResponses ==
    { MkResp(CTJson, MkBody("{", e)) : e \in FpEnvelopes }
    \cup { MkResp(CTJson, BodyNull), MkResp(CTHtml, BodyHtml), MkResp(CTNone, BodyGarbage) }

\* the ways the detector's request can end while ctx.Err() is e
FpScenarios(e) ==
    { MkScenario("ok", <<>>, r, "ok", <<>>) : r \in FpResponses }
    \cup { MkScenario("fail", ConnRefused, NoResp, "none", <<>>) }
    \cup (IF e = "none" THEN {}
          ELSE { MkScenario("fail", CtxText(e), NoResp, "none", <<>>) })

MkDetect(isApollo, err) == [isApollo |-> isApollo, err |-> err]
NoDetect == [isApollo |-> FALSE, err |-> MkErr("unset", <<>>)]

\* fingerprint.go 97-111: the loop over the errors array, from element i on
RECURSIVE ErrorsLoop(_, _)
ErrorsLoop(errors, i) ==
    IF i > Len(errors) THEN FALSE
    ELSE LET errMap == errors[i]
             message == Get(errMap, "message")
         IN  IF ~IsObj(errMap) THEN ErrorsLoop(errors, i + 1)
             ELSE IF ~IsStr(message) THEN ErrorsLoop(errors, i + 1)
             ELSE IF Contains(message.w, expectedErrorSubstring) THEN TRUE
             ELSE ErrorsLoop(errors, i + 1)

\* fingerprint.go 87-113, on what SendGraphQLRequestWithContext returned
ApolloMatchFirstOnly(ret) ==
    IF ret.err.kind # "nil" THEN MkDetect(FALSE, ret.err)
    ELSE LET errors == Get(ret.result, "errors")
         IN  IF ~IsArr(errors) THEN MkDetect(FALSE, NoErr)
             ELSE MkDetect(errors.a # <<>> /\ ErrorsLoop(<<errors.a[1]>>, 1), NoErr)

ApolloMatch(ret) ==
    IF ret.err.kind # "nil" THEN MkDetect(FALSE, ret.err)
    ELSE LET errors == Get(ret.result, "errors")
         IN  IF ~IsArr(errors) THEN MkDetect(FALSE, NoErr)
             ELSE MkDetect(ErrorsLoop(errors.a, 1), NoErr)

\* fingerprint.go 82-114
DetectApolloWithContext(e, sc) == ApolloMatch(SendResult(e, sc))

MkEngine(name, err) == [name |-> name, err |-> err]
NoEngine == [name |-> "", err |-> "unset"]
ErrNoEngine == "no known GraphQL engine detected or detection timed out"
ErrNoEngineV1 == "no known GraphQL engine detected"

\* fingerprint.go 124-133 with DetectApollo of 137-168: the sequential version
DetectEngineV1(ret) ==
    IF ApolloMatch(ret).isApollo THEN MkEngine("Apollo", "nil")
    ELSE MkEngine("", ErrNoEngineV1)

\* fingerprint.go 60-66: the second look at the channel after ctx.Done()
RecheckOutcomeNoError(chan) ==
    IF chan # <<>> THEN MkEngine(Head(chan), "nil") ELSE MkEngine("", "nil")

RecheckOutcome(chan) ==
    IF chan # <<>> THEN MkEngine(Head(chan), "nil") ELSE MkEngine("", ErrNoEngine)

\* the caller's context is cancelled (DetectEngineWithContext called directly)
FpParentCancel ==
    /\ fvia = "DetectEngineWithContext"
    /\ fparent = "active"
    /\ fcpc \in {"select", "recheck"}
    /\ fparent' = "canceled"
    /\ fctxErr' = IF fctxErr = "none" THEN "Canceled" ELSE fctxErr
    /\ UNCHANGED <<fvia, fdpc, fres, fdet, fold, fchan, fcpc, fret, fliveMatch>>
    /\ UNCHANGED <<tvars, dvars, avars, svars, uvars, wvars, mvars>>

\* the caller's deadline elapses (the 10 s of DetectEngine, line 14, or the caller's own)
FpParentExpire ==
    /\ fparent = "active"
    /\ fcpc \in {"select", "recheck"}
    /\ fparent' = "expired"
    /\ fctxErr' = IF fctxErr = "none" THEN "DeadlineExceeded" ELSE fctxErr
    /\ UNCHANGED <<fvia, fdpc, fres, fdet, fold, fchan, fcpc, fret, fliveMatch>>
    /\ UNCHANGED <<tvars, dvars, avars, svars, uvars, wvars, mvars>>

\* lines 32-37: the detector's request ends and its result is examined
DetectorRequest ==
    /\ fdpc = "start"
    /\ \E sc \in FpScenarios(fctxErr) :
          LET ret == SendResult(fctxErr, sc)
              det == DetectApolloWithContext(fctxErr, sc)
          IN  /\ fres' = ret
              /\ fdet' = det
              /\ fold' = DetectEngineV1(ret)
              /\ fliveMatch' = (det.err.kind = "nil" /\ det.isApollo /\ fparent = "active")
              /\ fdpc' = IF det.err.kind # "nil" THEN "done"
                         ELSE IF det.isApollo THEN "send"
                         ELSE "done"
    /\ UNCHANGED <<fvia, fparent, fctxErr, fchan, fcpc, fret>>
    /\ UNCHANGED <<tvars, dvars, avars, svars, uvars, wvars, mvars>>

\* line 39: resultChan <- "Apollo" (buffered, never blocks)
DetectorSend ==
    /\ fdpc = "send"
    /\ fchan' = Append(fchan, "Apollo")
    /\ fdpc' = "cancel"
    /\ UNCHANGED <<fvia, fparent, fctxErr, fres, fdet, fold, fcpc, fret, fliveMatch>>
    /\ UNCHANGED <<tvars, dvars, avars, svars, uvars, wvars, mvars>>

\* line 40: cancel()
DetectorCancel ==
    /\ fdpc = "cancel"
    /\ fctxErr' = IF fctxErr = "none" THEN "Canceled" ELSE fctxErr
    /\ fdpc' = "done"
    /\ UNCHANGED <<fvia, fparent, fres, fdet, fold, fchan, fcpc, fret, fliveMatch>>
    /\ UNCHANGED <<tvars, dvars, avars, svars, uvars, wvars, mvars>>

\* lines 55-57: the outer select takes the result case; defer cancel() runs
SelectResult ==
    /\ fcpc = "select"
    /\ fchan # <<>>
    /\ fret' = MkEngine(Head(fchan), "nil")
    /\ fchan' = Tail(fchan)
    /\ fcpc' = "returned"
    /\ fctxErr' = IF fctxErr = "none" THEN "Canceled" ELSE fctxErr
    /\ UNCHANGED <<fvia, fparent, fdpc, fres, fdet, fold, fliveMatch>>
    /\ UNCHANGED <<tvars, dvars, avars, svars, uvars, wvars, mvars>>

\* line 58: the outer select takes the ctx.Done() case
SelectDone ==
    /\ fcpc = "select"
    /\ fctxErr # "none"
    /\ fcpc' = "recheck"
    /\ UNCHANGED <<fvia, fparent, fctxErr, fdpc, fres, fdet, fold, fchan, fret, fliveMatch>>
    /\ UNCHANGED <<tvars, dvars, avars, svars, uvars, wvars, mvars>>

\* lines 60-66: the inner select with its default case
Recheck ==
    /\ fcpc = "recheck"
    /\ fret' = RecheckOutcome(fchan)
    /\ fchan' = IF fchan # <<>> THEN Tail(fchan) ELSE fchan
    /\ fcpc' = "returned"
    /\ UNCHANGED <<fvia, fparent, fctxErr, fdpc, fres, fdet, fold, fliveMatch>>
    /\ UNCHANGED <<tvars, dvars, avars, svars, uvars, wvars, mvars>>

FNext ==
    \/ FpParentCancel
    \/ FpParentExpire
    \/ DetectorRequest
    \/ DetectorSend
    \/ DetectorCancel
    \/ SelectResult
    \/ SelectDone
    \/ Recheck

(***************************************************************************)
(* Schema model (unnamed/part_001 104-254, pkg/schema/schema.go).          *)
(* A *TypeRef is a sequence of length 0 (nil) or 1.                        *)
(***************************************************************************)
Wrappers == {"NON_NULL", "LIST"}

Named(kind, name) == [kind |-> kind, name |-> name, ofType |-> <<>>]
Wrap(kind, tr) == [kind |-> kind, name |-> "", ofType |-> <<tr>>]
NonNull(tr) == Wrap("NON_NULL", tr)
ListOf(tr) == Wrap("LIST", tr)

MkArg(name, type) == [name |-> name, type |-> type]
MkField(name, args, type) == [name |-> name, args |-> args, type |-> type]
MkType(kind, name, fields) == [kind |-> kind, name |-> name, fields |-> fields]

TString == Named("SCALAR", "String")
TInt == Named("SCALAR", "Int")
TID == Named("SCALAR", "ID")
TColor == Named("ENUM", "Color")
TA == Named("OBJECT", "A")
TB == Named("OBJECT", "B")
TNode == Named("INTERFACE", "Node")
TSearch == Named("UNION", "SearchResult")

\* a schema with cycles: A.self and A.friends are of type A, A.b.a is A again
CyclicTypes ==
    << MkType("OBJECT", "Query",
              << MkField("a", <<MkArg("id", NonNull(TID))>>, NonNull(TA)),
                 MkField("name", <<>>, TString),
                 MkField("color", <<MkArg("dark", TInt)>>, NonNull(TColor)),
                 MkField("node", <<>>, TNode),
                 MkField("search", <<>>, ListOf(TSearch)) >>),
       MkType("OBJECT", "A",
              << MkField("id", <<>>, NonNull(TID)),
                 MkField("self", <<>>, TA),
                 MkField("friends", <<>>, NonNull(ListOf(NonNull(TA)))),
                 MkField("b", <<>>, TB) >>),
       MkType("OBJECT", "B",
              << MkField("a", <<>>, TA),
                 MkField("kind", <<>>, ListOf(TColor)),
                 MkField("owner", <<>>, TNode) >>),
       MkType("INTERFACE", "Node", << MkField("id", <<>>, NonNull(TID)) >>),
       MkType("UNION", "SearchResult", <<>>),
       MkType("SCALAR", "String", <<>>),
       MkType("SCALAR", "Int", <<>>),
       MkType("SCALAR", "ID", <<>>),
       MkType("ENUM", "Color", <<>>),
       MkType("INPUT_OBJECT", "AInput", <<>>),
       MkType("OBJECT", "Mutation",
              << MkField("createA",
                         << MkArg("input", NonNull(Named("INPUT_OBJECT", "AInput"))),
                            MkArg("tags", ListOf(NonNull(TString))) >>,
                         TA),
                 MkField("ping", <<>>, NonNull(TString)) >>) >>

\* a schema without cycles: only the depth budget can cut the walk
ChainTypes ==
    << MkType("OBJECT", "Query", << MkField("top", <<>>, Named("OBJECT", "T1")) >>),
       MkType("OBJECT", "T1",
              << MkField("n", <<>>, TInt), MkField("next", <<>>, Named("OBJECT", "T2")) >>),
       MkType("OBJECT", "T2", << MkField("next", <<>>, NonNull(Named("OBJECT", "T3"))) >>),
       MkType("OBJECT", "T3",
              << MkField("v", <<>>, TInt),
                 MkField("ghost", <<>>, Named("OBJECT", "Ghost")),
                 MkField("none", <<>>, Named("OBJECT", "Empty")) >>),
       MkType("OBJECT", "Empty", <<>>),
       MkType("SCALAR", "Int", <<>>) >>

\* data.__schema of an introspection result (types.go 96-102)
MkPayload(queryType, mutationType, types) ==
    [queryType |-> queryType, mutationType |-> mutationType, types |-> types]

Payloads ==
    { MkPayload("Query", "Mutation", CyclicTypes),
      MkPayload("Query", "", CyclicTypes),
      MkPayload("Query", "Missing", CyclicTypes),
      MkPayload("QueryRoot", "Mutation", CyclicTypes),
      MkPayload("", "Mutation", CyclicTypes),
      MkPayload("", "", <<>>),
      MkPayload("Query", "", ChainTypes) }

\* what is on disk: no readable file, a file that is not JSON, or a payload
SchemaFiles ==
    { [kind |-> "unreadable", payload |-> MkPayload("", "", <<>>)],
      [kind |-> "garbage", payload |-> MkPayload("", "", <<>>)] }
    \cup { [kind |-> "json", payload |-> p] : p \in Payloads }

\* part_001 231-234: schema.Types[t.Name] = t for the types in order
RECURSIVE TypesMap(_, _)
TypesMap(types, n) ==
    IF n = 0 THEN <<>>
    ELSE LET m == TypesMap(types, n - 1)
             t == types[n]
         IN  [k \in DOMAIN m \cup {t.name} |-> IF k = t.name THEN t ELSE m[k]]

MkSchema(Types, Query, Mutation) == [Types |-> Types, Query |-> Query, Mutation |-> Mutation]
NoSchema == MkSchema(<<>>, <<>>, <<>>)
MkLoad(schema, err) == [schema |-> schema, err |-> err]
NoLoad == MkLoad(NoSchema, "unset")

\* part_001 211-254 (= schema.go 108-151)
LoadFromFileMutationRequired(file) ==
    IF file.kind = "unreadable" THEN MkLoad(NoSchema, "failed to read file")
    ELSE IF file.kind = "garbage" THEN MkLoad(NoSchema, "failed to parse JSON")
    ELSE LET p == file.payload
             Types == TypesMap(p.types, Len(p.types))
             Query == IF p.queryType \in DOMAIN Types THEN <<Types[p.queryType]>> ELSE <<>>
         IN  IF p.mutationType \in DOMAIN Types
             THEN MkLoad(MkSchema(Types, Query, <<Types[p.mutationType]>>), "nil")
             ELSE MkLoad(NoSchema, "mutation type not found")

LoadFromFile(file) ==
    IF file.kind = "unreadable" THEN MkLoad(NoSchema, "failed to read file")
    ELSE IF file.kind = "garbage" THEN MkLoad(NoSchema, "failed to parse JSON")
    ELSE LET p == file.payload
             Types == TypesMap(p.types, Len(p.types))
             Query == IF p.queryType \in DOMAIN Types THEN <<Types[p.queryType]>> ELSE <<>>
             Mutation == IF p.mutationType # ""
                         THEN IF p.mutationType \in DOMAIN Types
                              THEN <<Types[p.mutationType]>>
                              ELSE <<>>
                         ELSE <<>>
         IN  MkLoad(MkSchema(Types, Query, Mutation), "nil")

\* part_001 257-262
unwrapTypeOnce(tr) ==
    IF tr.kind = "NON_NULL" \/ tr.kind = "LIST" THEN tr.ofType[1] ELSE tr

RECURSIVE unwrapType(_)
unwrapType(tr) ==
    IF tr.kind = "NON_NULL" \/ tr.kind = "LIST" THEN unwrapType(tr.ofType[1]) ELSE tr

\* generator/query_generator.go 61-70, on the decoded JSON of a type reference
RECURSIVE unwrapTypeJSON(_)
unwrapTypeJSON(t) ==
    IF IsObj(Get(t, "ofType")) THEN unwrapTypeJSON(Get(t, "ofType")) ELSE t

\* the JSON of a type reference as introspection returns it
RECURSIVE RefJSON(_)
RefJSON(tr) ==
    JObj([kind |-> JStr(tr.kind),
          name |-> IF tr.name = "" THEN JNull ELSE JStr(tr.name),
          ofType |-> IF tr.ofType = <<>> THEN JNull ELSE RefJSON(tr.ofType[1])])

\* part_001 264-276: (*TypeRef).String()
RECURSIVE TypeRefString(_)
TypeRefString(tr) ==
    IF tr.kind = "NON_NULL" THEN TypeRefString(tr.ofType[1]) \o <<"!">>
    ELSE IF tr.kind = "LIST" THEN <<"[">> \o TypeRefString(tr.ofType[1]) \o <<"]">>
    ELSE <<tr.name>>

\* the field names of a root type, in order (the loops of part_001 413, 428)
FieldNamesOf(root) ==
    IF root = <<>> THEN <<>> ELSE [i \in DOMAIN root[1].fields |-> root[1].fields[i].name]

\* part_001 406-418
ListQueries(s) == FieldNamesOf(s.Query)

\* part_001 421-433
ListMutations(s) == FieldNamesOf(s.Mutation)

(***************************************************************************)
(* unwrapType on type references of every shape up to MaxWrap wrappers.    *)
(***************************************************************************)
Terminals == {TString, TColor, TA, TNode, TSearch, Named("INPUT_OBJECT", "AInput")}

WrapperSeqs == UNION { [1..n -> Wrappers] : n \in 0..MaxWrap }

RECURSIVE BuildRef(_, _)
BuildRef(ws, term) ==
    IF ws = <<>> THEN term ELSE Wrap(Head(ws), BuildRef(Tail(ws), term))

UnwrapCall ==
    /\ ures.done = FALSE
    /\ LET tr == BuildRef(uin.wrappers, uin.term)
       IN  ures' = [done |-> TRUE, ref |-> unwrapType(tr), json |-> unwrapTypeJSON(RefJSON(tr))]
    /\ UNCHANGED uin
    /\ UNCHANGED <<tvars, dvars, avars, fvars, svars, wvars, mvars>>

UNext == UnwrapCall

(***************************************************************************)
(* Query/mutation synthesis (unnamed/part_001 278-403), one call of        *)
(* generateSelectionSetWithCount per stack frame.  Documents are sequences *)
(* of tokens; indentation and line breaks are left out.                    *)
(***************************************************************************)
\* part_001 281 and 286
SentinelDepth == <<"!!! MAX RECURSION DEPTH REACHED !!!">>
SentinelLimit(typeName) == <<"!!! MAX RECURSION LIMIT for", typeName, "reached !!!">>
IsSentinelToken(tok) ==
    tok \in {"!!! MAX RECURSION DEPTH REACHED !!!", "!!! MAX RECURSION LIMIT for", "reached !!!"}

Placeholder == "# Selection set would go here"

\* visited[typeName] on a map[string]int: 0 for an absent key
VisitCount(v, typeName) == IF typeName \in DOMAIN v THEN v[typeName] ELSE 0
\* a counter that is never taken back
VisitAddNoDecrement(v, typeName, d) ==
    [k \in DOMAIN v \cup {typeName} |->
        IF k = typeName /\ d > 0 THEN VisitCount(v, typeName) + d
        ELSE IF k \in DOMAIN v THEN v[k] ELSE 0]

\* visited[typeName]++ and visited[typeName]--
VisitAdd(v, typeName, d) ==
    [k \in DOMAIN v \cup {typeName} |->
        IF k = typeName THEN VisitCount(v, typeName) + d ELSE v[k]]

MkFrame(typeName, maxDepth) ==
    [typeName |-> typeName, maxDepth |-> maxDepth, idx |-> 0, sel |-> <<>>]

\* part_001 295-298: the fields the loop runs over (none if the type is unknown)
FieldsOfType(s, typeName) ==
    IF typeName \in DOMAIN s.Types THEN s.Types[typeName].fields ELSE <<>>

\* part_001 304: the kinds the walk descends into
RecursesInto(kind) == kind = "OBJECT"

\* part_001 306-310: a field with the selection generated for its type
EmitFieldUnclosed(name, nested) ==
    IF nested # <<>> THEN <<name, "{">> \o nested ELSE <<name>>

EmitField(name, nested) ==
    IF nested # <<>> THEN <<name, "{">> \o nested \o <<"}">> ELSE <<name>>

\* part_001 350-354 and 396-400: the end of the document
RootSelection(selectionSet) ==
    IF selectionSet # <<>> THEN <<"{">> \o selectionSet \o <<"}", "}">>
    ELSE <<"{", Placeholder, "}", "}">>

\* part_001 336-345: "(" name ": " type { ", " name ": " type } ")"
RECURSIVE ArgsJoin(_, _)
ArgsJoin(args, i) ==
    IF i > Len(args) THEN <<>>
    ELSE (IF i > 1 THEN <<",">> ELSE <<>>)
         \o <<args[i].name, ":">> \o TypeRefString(args[i].type) \o ArgsJoin(args, i + 1)

ArgsString(args) == IF Len(args) > 0 THEN <<"(">> \o ArgsJoin(args, 1) \o <<")">> ELSE <<>>

\* part_001 335-345: the document up to the selection set
Prefix(kind, field) == <<kind, field.name, "{", field.name>> \o ArgsString(field.args)

\* a lookup that falls back to the first field
FindFieldOrFirst(fields, fieldName) ==
    IF \E i \in DOMAIN fields : fields[i].name = fieldName
    THEN CHOOSE i \in DOMAIN fields : fields[i].name = fieldName
    ELSE IF fields # <<>> THEN 1 ELSE 0

\* part_001 324-330: the first field of the root type with that name (0: none)
FindField(fields, fieldName) ==
    IF \E i \in DOMAIN fields : fields[i].name = fieldName
    THEN CHOOSE i \in DOMAIN fields :
            /\ fields[i].name = fieldName
            /\ \A j \in 1..(i - 1) : fields[j].name # fieldName
    ELSE 0

ErrNoRoot(kind) == <<"schema has no", kind, "type">>
ErrFieldNotFound(kind, fieldName) == <<"field", fieldName, "not found in", kind, "type">>

MkGen(doc, err) == [doc |-> doc, err |-> err]
NoGen == MkGen(<<>>, <<"unset">>)
ErrNil == <<"nil">>
ErrPending == <<"pending">>

\* schema.go 154-231: the first version, which writes the placeholder always
RECURSIVE ArgsJoinV1(_, _)
ArgsJoinV1(args, i) ==
    IF i > Len(args) THEN <<>>
    ELSE (IF i > 1 THEN <<",">> ELSE <<>>)
         \o <<args[i].name, ":", "$", args[i].name>> \o ArgsJoinV1(args, i + 1)

GenerateV1(s, kind, fieldName) ==
    LET root == IF kind = "query" THEN s.Query ELSE s.Mutation
        i == IF root = <<>> THEN 0 ELSE FindField(root[1].fields, fieldName)
    IN  IF root = <<>> THEN MkGen(<<>>, ErrNoRoot(kind))
        ELSE IF i = 0 THEN MkGen(<<>>, ErrFieldNotFound(kind, fieldName))
        ELSE LET f == root[1].fields[i]
             IN  MkGen(<<kind, f.name, "{", f.name>>
                       \o (IF Len(f.args) > 0
                           THEN <<"(">> \o ArgsJoinV1(f.args, 1) \o <<")">>
                           ELSE <<>>)
                       \o <<"{", Placeholder, "}", "}">>, ErrNil)

RequestNames ==
    {"a", "name", "color", "node", "search", "createA", "ping", "top", "nosuch"}

DepthChoices == (1..MaxDepth) \cup {DefaultMaxDepth}

\* LoadFromFile, as called by HandleSchemaFile (cli.go 53-57)
SchemaLoad ==
    /\ spc = "load"
    /\ sload' = LoadFromFile(sfile)
    /\ spc' = IF LoadFromFile(sfile).err = "nil" THEN "loaded" ELSE "failed"
    /\ UNCHANGED <<sfile, slist, gop, gstack, visited, gout, gdocs>>
    /\ UNCHANGED <<tvars, dvars, avars, fvars, uvars, wvars, mvars>>

\* ListQueries and ListMutations on the loaded schema
SchemaList ==
    /\ spc = "loaded"
    /\ slist' = [done |-> TRUE,
                 queries |-> ListQueries(sload.schema),
                 mutations |-> ListMutations(sload.schema)]
    /\ spc' = "ready"
    /\ UNCHANGED <<sfile, sload, gop, gstack, visited, gout, gdocs>>
    /\ UNCHANGED <<tvars, dvars, avars, fvars, uvars, wvars, mvars>>

\* GenerateQuery / GenerateMutation up to the call of the walk (part_001
\* 319-349, 359-395); the depth budget is the caller's (cli.go 105), which
\* part_001 fixes to 10; the generator and the budget are the same for every
\* name of one loop (cli.go 97-105)
GenStart ==
    /\ spc = "ready"
    /\ \E kind \in (IF gdocs = <<>> THEN {"query", "mutation"} ELSE {gop.kind}),
          fieldName \in RequestNames,
          maxDepth \in (IF gdocs = <<>> THEN DepthChoices ELSE {gop.maxDepth}) :
          LET s == sload.schema
              root == IF kind = "query" THEN s.Query ELSE s.Mutation
              i == IF root = <<>> THEN 0 ELSE FindField(root[1].fields, fieldName)
          IN  /\ gop' = [kind |-> kind, field |-> fieldName, maxDepth |-> maxDepth,
                         v1 |-> GenerateV1(s, kind, fieldName)]
              /\ visited' = [k \in {} |-> 0]
              /\ IF root = <<>>
                 THEN /\ gout' = MkGen(<<>>, ErrNoRoot(kind))
                      /\ gstack' = <<>>
                      /\ spc' = "done"
                 ELSE IF i = 0
                 THEN /\ gout' = MkGen(<<>>, ErrFieldNotFound(kind, fieldName))
                      /\ gstack' = <<>>
                      /\ spc' = "done"
                 ELSE LET f == root[1].fields[i]
                          underlying == unwrapType(f.type)
                      IN  /\ gout' = MkGen(Prefix(kind, f), ErrPending)
                          /\ gstack' = <<MkFrame(underlying.name, maxDepth)>>
                          /\ spc' = "walk"
    /\ UNCHANGED <<sfile, sload, slist, gdocs>>
    /\ UNCHANGED <<tvars, dvars, avars, fvars, uvars, wvars, mvars>>

\* the top frame returns `nested`, leaving the visit counts v: the caller
\* appends the field (part_001 305-310) or, at the root, ends the document
\* (part_001 350-355)
ReturnTo(nested, v) ==
    LET rest == SubSeq(gstack, 1, Len(gstack) - 1)
    IN  /\ visited' = v
        /\ IF rest = <<>>
           THEN /\ gstack' = <<>>
                /\ gout' = MkGen(gout.doc \o RootSelection(nested), ErrNil)
                /\ spc' = "done"
           ELSE LET above == rest[Len(rest)]
                    f == FieldsOfType(sload.schema, above.typeName)[above.idx]
                IN  /\ gstack' = [rest EXCEPT ![Len(rest)] =
                                     [above EXCEPT !.sel = @ \o EmitField(f.name, nested),
                                                    !.idx = @ + 1]]
                    /\ gout' = gout
                    /\ spc' = spc

\* part_001 280-298: entry of generateSelectionSetWithCount
WalkEnter ==
    /\ spc = "walk"
    /\ gstack # <<>>
    /\ LET top == gstack[Len(gstack)]
       IN  /\ top.idx = 0
           /\ IF top.maxDepth <= 0
              THEN ReturnTo(SentinelDepth, visited)
              ELSE IF top.typeName \in DOMAIN visited /\ visited[top.typeName] >= VisitCeiling
              THEN ReturnTo(SentinelLimit(top.typeName), visited)
              ELSE IF Len(FieldsOfType(sload.schema, top.typeName)) = 0
              THEN ReturnTo(<<>>, VisitAdd(VisitAdd(visited, top.typeName, 1), top.typeName, -1))
              ELSE /\ visited' = VisitAdd(visited, top.typeName, 1)
                   /\ gstack' = [gstack EXCEPT ![Len(gstack)].idx = 1]
                   /\ UNCHANGED <<gout, spc>>
    /\ UNCHANGED <<sfile, sload, slist, gop, gdocs>>
    /\ UNCHANGED <<tvars, dvars, avars, fvars, uvars, wvars, mvars>>

\* part_001 302-313: one iteration of the loop over the fields
WalkField ==
    /\ spc = "walk"
    /\ gstack # <<>>
    /\ LET top == gstack[Len(gstack)]
           fields == FieldsOfType(sload.schema, top.typeName)
       IN  /\ top.idx >= 1
           /\ top.idx <= Len(fields)
           /\ LET f == fields[top.idx]
                  underlying == unwrapType(f.type)
              IN  IF RecursesInto(underlying.kind)
                  THEN gstack' = Append(gstack, MkFrame(underlying.name, top.maxDepth - 1))
                  ELSE gstack' = [gstack EXCEPT ![Len(gstack)] =
                                     [top EXCEPT !.sel = @ \o <<f.name>>, !.idx = @ + 1]]
    /\ UNCHANGED <<sfile, sload, slist, gop, visited, gout, gdocs, spc>>
    /\ UNCHANGED <<tvars, dvars, avars, fvars, uvars, wvars, mvars>>

\* part_001 315 with the deferred decrement of 291-293
WalkReturn ==
    /\ spc = "walk"
    /\ gstack # <<>>
    /\ LET top == gstack[Len(gstack)]
       IN  /\ top.idx > Len(FieldsOfType(sload.schema, top.typeName))
           /\ top.idx >= 1
           /\ ReturnTo(top.sel, VisitAdd(visited, top.typeName, -1))
    /\ UNCHANGED <<sfile, sload, slist, gop, gdocs>>
    /\ UNCHANGED <<tvars, dvars, avars, fvars, uvars, wvars, mvars>>

\* generateSelectionSetWithCount as the recursive function it is (part_001
\* 279-316): the selection of a type under a budget and the counts v
RECURSIVE SelectionOf(_, _, _, _)
RECURSIVE FieldsFrom(_, _, _, _, _)
SelectionOf(s, typeName, maxDepth, v) ==
    IF maxDepth <= 0 THEN SentinelDepth
    ELSE IF VisitCount(v, typeName) >= VisitCeiling THEN SentinelLimit(typeName)
    ELSE FieldsFrom(s, FieldsOfType(s, typeName), 1, maxDepth, VisitAdd(v, typeName, 1))

\* part_001 302-313: the loop over the fields from the i-th on
FieldsFrom(s, fields, i, maxDepth, v) ==
    IF i > Len(fields) THEN <<>>
    ELSE LET f == fields[i]
             underlying == unwrapType(f.type)
         IN  (IF RecursesInto(underlying.kind)
              THEN EmitField(f.name, SelectionOf(s, underlying.name, maxDepth - 1, v))
              ELSE <<f.name>>)
             \o FieldsFrom(s, fields, i + 1, maxDepth, v)

\* GenerateQuery / GenerateMutation as one call (part_001 319-356, 359-403)
GenerateDoc(s, kind, fieldName, maxDepth) ==
    LET root == IF kind = "query" THEN s.Query ELSE s.Mutation
        i == IF root = <<>> THEN 0 ELSE FindField(root[1].fields, fieldName)
    IN  IF root = <<>> THEN MkGen(<<>>, ErrNoRoot(kind))
        ELSE IF i = 0 THEN MkGen(<<>>, ErrFieldNotFound(kind, fieldName))
        ELSE LET f == root[1].fields[i]
             IN  MkGen(Prefix(kind, f)
                       \o RootSelection(SelectionOf(s, unwrapType(f.type).name, maxDepth,
                                                    [k \in {} |-> 0])),
                       ErrNil)

\* a loop that ends at the first error
NextOperationUntilError ==
    /\ spc = "done"
    /\ gout.err = ErrNil
    /\ Len(gdocs) + 1 < MaxCalls
    /\ gdocs' = Append(gdocs, gout)
    /\ spc' = "ready"
    /\ UNCHANGED <<sfile, sload, slist, gop, gstack, visited, gout>>
    /\ UNCHANGED <<tvars, dvars, avars, fvars, uvars, wvars, mvars>>

\* the loop of GenerateAndPrintOperations (cli.go 104-111): the result of a
\* call is logged or printed, and the next name is taken
NextOperation ==
    /\ spc = "done"
    /\ Len(gdocs) + 1 < MaxCalls
    /\ gdocs' = Append(gdocs, gout)
    /\ spc' = "ready"
    /\ UNCHANGED <<sfile, sload, slist, gop, gstack, visited, gout>>
    /\ UNCHANGED <<tvars, dvars, avars, fvars, uvars, wvars, mvars>>

SNext ==
    \/ SchemaLoad
    \/ SchemaList
    \/ GenStart
    \/ NextOperation
    \/ WalkEnter
    \/ WalkField
    \/ WalkReturn

(***************************************************************************)
(* Subscription client (introspection.go 140-227) against a WebSocket      *)
(* server.  The server acknowledges connection_init with srv.ack (or stays *)
(* silent), accepts the dialects in srv.accepts and treats any other       *)
(* subscription message as srv.reject says.  Every dial, write and read    *)
(* may also fail.                                                          *)
(***************************************************************************)
\* a candidate order that starts with the older dialect
msgTypesReversed == <<"start", "subscribe">>

\* introspection.go 153
msgTypes == <<"subscribe", "start">>

\* introspection.go 144-148
WSMessage(type, id, payload) == [type |-> type, id |-> id, payload |-> payload]
\* introspection.go 168-171
initMsg == WSMessage("connection_init", "", <<>>)
\* introspection.go 187-202
subMsg(msgType, query) == WSMessage(msgType, "1", <<"query", query>>)

Queries == {"subscription { tick }"}

Servers ==
    [ack : {"connection_ack", "connection_error", "none"},
     accepts : SUBSET {"subscribe", "start"},
     reject : {"ignore", "error", "close"}]

\* the socket of one attempt, as the client sees it
MkSock(msgType, dialled) ==
    [msgType |-> msgType, dialled |-> dialled, sent |-> <<>>, got |-> <<>>,
     open |-> dialled, failedAt |-> IF dialled THEN "none" ELSE "dial"]

\* the server's end of a socket
NewPeer == [state |-> "new", frames |-> <<>>, pushed |-> 0]
NoPeer == [state |-> "none", frames |-> <<>>, pushed |-> 0]

\* what the server does with a message it receives
ServerOn(p, msg) ==
    IF msg.type = "connection_init"
    THEN IF srv.ack = "none" THEN [p EXCEPT !.state = "silent"]
         ELSE [p EXCEPT !.state = "acked", !.frames = Append(@, srv.ack)]
    ELSE IF msg.type \in srv.accepts THEN [p EXCEPT !.state = "subscribed"]
    ELSE IF srv.reject = "error"
    THEN [p EXCEPT !.state = "rejected", !.frames = Append(@, "error")]
    ELSE IF srv.reject = "close" THEN [p EXCEPT !.state = "closed"]
    ELSE [p EXCEPT !.state = "ignored"]

\* the error an attempt leaves in lastErr (introspection.go 160, 174, 182, 208)
StepErr(step, msgType) ==
    IF step = "dial" THEN <<"failed to connect:", "dial error">>
    ELSE IF step = "init" THEN <<"failed to send connection_init:", "write error">>
    ELSE IF step = "read" THEN <<"failed to read connection_ack:", "read error">>
    ELSE <<"failed to send subscription message with type", msgType, ":", "write error">>

\* introspection.go 215
ErrBoth(err) ==
    <<"failed to send subscription message using both 'subscribe' and 'start':">> \o err

NoSubRet == [conn |-> 0, err |-> <<"unset">>]

\* `continue` after a failed step: the next dialect, or the error return
\* after the last one (introspection.go 156 and 215)
NextDialect(err) ==
    /\ lastErr' = err
    /\ IF msgIdx = Len(msgTypes)
       THEN /\ subpc' = "returned"
            /\ subret' = [conn |-> 0, err |-> ErrBoth(err)]
            /\ msgIdx' = msgIdx
       ELSE /\ subpc' = "dial"
            /\ msgIdx' = msgIdx + 1
            /\ subret' = subret

\* a failed step that leaves the socket open
FailSockLeak(step) ==
    [socks EXCEPT ![msgIdx] = [@ EXCEPT !.failedAt = step]]

\* conn.Close() and the message that step failed
FailSock(step) ==
    [socks EXCEPT ![msgIdx] = [@ EXCEPT !.open = FALSE, !.failedAt = step]]

\* introspection.go 158: websocket.DefaultDialer.Dial succeeds
DialOK ==
    /\ subpc = "dial"
    /\ socks' = Append(socks, MkSock(msgTypes[msgIdx], TRUE))
    /\ peer' = Append(peer, NewPeer)
    /\ subpc' = "init"
    /\ UNCHANGED <<srv, squery, msgIdx, lastErr, subret, lastRead>>
    /\ UNCHANGED <<tvars, dvars, avars, fvars, svars, uvars, mvars>>

\* introspection.go 159-162
DialFail ==
    /\ subpc = "dial"
    /\ socks' = Append(socks, MkSock(msgTypes[msgIdx], FALSE))
    /\ peer' = Append(peer, NoPeer)
    /\ NextDialect(StepErr("dial", msgTypes[msgIdx]))
    /\ UNCHANGED <<srv, squery, lastRead>>
    /\ UNCHANGED <<tvars, dvars, avars, fvars, svars, uvars, mvars>>

\* introspection.go 168-172: connection_init is written
InitWriteOK ==
    /\ subpc = "init"
    /\ socks' = [socks EXCEPT ![msgIdx].sent = Append(@, initMsg)]
    /\ peer' = [peer EXCEPT ![msgIdx] = ServerOn(@, initMsg)]
    /\ subpc' = "read"
    /\ UNCHANGED <<srv, squery, msgIdx, lastErr, subret, lastRead>>
    /\ UNCHANGED <<tvars, dvars, avars, fvars, svars, uvars, mvars>>

\* introspection.go 172-176
InitWriteFail ==
    /\ subpc = "init"
    /\ socks' = FailSock("init")
    /\ NextDialect(StepErr("init", msgTypes[msgIdx]))
    /\ UNCHANGED <<srv, squery, peer, lastRead>>
    /\ UNCHANGED <<tvars, dvars, avars, fvars, svars, uvars, mvars>>

\* introspection.go 179, 185: one message is read, whatever its type
AckReadOK ==
    /\ subpc = "read"
    /\ peer[msgIdx].frames # <<>>
    /\ socks' = [socks EXCEPT ![msgIdx].got = Append(@, Head(peer[msgIdx].frames))]
    /\ peer' = [peer EXCEPT ![msgIdx].frames = Tail(@)]
    /\ subpc' = "sub"
    /\ UNCHANGED <<srv, squery, msgIdx, lastErr, subret, lastRead>>
    /\ UNCHANGED <<tvars, dvars, avars, fvars, svars, uvars, mvars>>

\* a failed read after which the attempt goes on
AckReadFailContinues ==
    /\ subpc = "read"
    /\ socks' = FailSock("read")
    /\ lastErr' = StepErr("read", msgTypes[msgIdx])
    /\ subpc' = "sub"
    /\ UNCHANGED <<srv, squery, msgIdx, peer, subret, lastRead>>
    /\ UNCHANGED <<tvars, dvars, avars, fvars, svars, uvars, mvars>>

\* introspection.go 180-184: the read fails (the connection drops, or the
\* read deadline of line 165 passes)
AckReadFail ==
    /\ subpc = "read"
    /\ socks' = FailSock("read")
    /\ NextDialect(StepErr("read", msgTypes[msgIdx]))
    /\ UNCHANGED <<srv, squery, peer, lastRead>>
    /\ UNCHANGED <<tvars, dvars, avars, fvars, svars, uvars, mvars>>

\* introspection.go 187-214: the payload is marshalled (a map of one string
\* always marshals), the subscription message is written and the socket is
\* returned
SubWriteOK ==
    /\ subpc = "sub"
    /\ socks' = [socks EXCEPT ![msgIdx].sent = Append(@, subMsg(msgTypes[msgIdx], squery))]
    /\ peer' = [peer EXCEPT ![msgIdx] = ServerOn(@, subMsg(msgTypes[msgIdx], squery))]
    /\ subpc' = "returned"
    /\ subret' = [conn |-> msgIdx, err |-> ErrNil]
    /\ UNCHANGED <<srv, squery, msgIdx, lastErr, lastRead>>
    /\ UNCHANGED <<tvars, dvars, avars, fvars, svars, uvars, mvars>>

\* introspection.go 205-209
SubWriteFail ==
    /\ subpc = "sub"
    /\ socks' = FailSock("sub")
    /\ NextDialect(StepErr("sub", msgTypes[msgIdx]))
    /\ UNCHANGED <<srv, squery, peer, lastRead>>
    /\ UNCHANGED <<tvars, dvars, avars, fvars, svars, uvars, mvars>>

\* the server sends an event on a subscription it accepted
ServerData ==
    /\ \E i \in DOMAIN peer :
          /\ peer[i].state = "subscribed"
          /\ peer[i].pushed < MaxFrames
          /\ peer' = [peer EXCEPT ![i] = [@ EXCEPT !.frames = Append(@, "data"),
                                                   !.pushed = @ + 1]]
    /\ UNCHANGED <<srv, squery, subpc, msgIdx, socks, lastErr, subret, lastRead>>
    /\ UNCHANGED <<tvars, dvars, avars, fvars, svars, uvars, mvars>>

\* main.go 535-541: the error ends the process, the socket goes to Listen
AfterSubscribe ==
    /\ subpc = "returned"
    /\ subpc' = IF subret.err = ErrNil THEN "listen" ELSE "exit1"
    /\ UNCHANGED <<srv, squery, msgIdx, socks, peer, lastErr, subret, lastRead>>
    /\ UNCHANGED <<tvars, dvars, avars, fvars, svars, uvars, mvars>>

\* introspection.go 220, 225: one message is read and logged
ListenReadOK ==
    /\ subpc = "listen"
    /\ peer[subret.conn].frames # <<>>
    /\ socks' = [socks EXCEPT ![subret.conn].got = Append(@, Head(peer[subret.conn].frames))]
    /\ peer' = [peer EXCEPT ![subret.conn].frames = Tail(@)]
    /\ lastRead' = "ok"
    /\ UNCHANGED <<srv, squery, subpc, msgIdx, lastErr, subret>>
    /\ UNCHANGED <<tvars, dvars, avars, fvars, svars, uvars, mvars>>

\* a loop that reads again after an error
ListenReadFailRetry ==
    /\ subpc = "listen"
    /\ lastRead # "err"
    /\ lastRead' = "err"
    /\ UNCHANGED <<srv, squery, subpc, msgIdx, socks, peer, lastErr, subret>>
    /\ UNCHANGED <<tvars, dvars, avars, fvars, svars, uvars, mvars>>

\* introspection.go 220-224: the read fails, the loop ends
ListenReadFail ==
    /\ subpc = "listen"
    /\ lastRead' = "err"
    /\ subpc' = "stopped"
    /\ UNCHANGED <<srv, squery, msgIdx, socks, peer, lastErr, subret>>
    /\ UNCHANGED <<tvars, dvars, avars, fvars, svars, uvars, mvars>>

WNext ==
    \/ DialOK
    \/ DialFail
    \/ InitWriteOK
    \/ InitWriteFail
    \/ AckReadOK
    \/ AckReadFail
    \/ SubWriteOK
    \/ SubWriteFail
    \/ ServerData
    \/ AfterSubscribe
    \/ ListenReadOK
    \/ ListenReadFail

(***************************************************************************)
(* The logger (logger.go) and the part of main that runs before the audit  *)
(* (main.go 377-516): config file, batch mode and execute mode.            *)
(***************************************************************************)
LevelNames == {"debug", "info", "warn", "error", "fatal"}

\* logger.go 73-86: the switch of SetupLogging
LevelOf(name) == IF name \in LevelNames THEN name ELSE "info"

\* logger.go 130-148: only a message of exactly the current level is written
LogWrites(level) == level = currentLevel

\* logger.go 132-134 and 150-155: os.Exit(1) is reached by a message of level
\* fatal that was not suppressed
LogExits(level) == level = currentLevel /\ level = "fatal"

\* logger.go 136-148: the entry reaches the output
LogAppend(out, level, msg) == IF LogWrites(level) THEN Append(out, <<level, msg>>) ELSE out

\* one call of log(level, ...) at a place where the process is running
LogCall(level, msg) ==
    /\ logOut' = LogAppend(logOut, level, msg)
    /\ exitCode' = IF LogExits(level) THEN 1 ELSE exitCode

\* logger.go 179-181
Fatal(msg) ==
    /\ LogCall("fatal", msg)
    /\ fatalCalls' = fatalCalls + 1

Configs ==
    [ConfigFile : {"", "bad", "good"},
     BatchDir : {"", "dir"},
     BaseURL : {"", "url"},
     Execute : BOOLEAN,
     Query : {"string", "file", "unreadable", "none"},
     Variables : {"", "json", "garbage"},
     LogLevel : LevelNames \cup {"verbose"}]

NoConfig ==
    [ConfigFile |-> "", BatchDir |-> "", BaseURL |-> "", Execute |-> FALSE,
     Query |-> "none", Variables |-> "", LogLevel |-> "info"]

\* main.go 381-387
MainConfig ==
    /\ mpc = "config"
    /\ IF cfg.ConfigFile = ""
       THEN /\ mpc' = "batch"
            /\ UNCHANGED <<cfg, logOut, exitCode, fatalCalls, sentTo>>
       ELSE IF cfg.ConfigFile = "good"
       THEN \* merge.go 9-11: the file's base URL fills an empty one
            /\ cfg' = [cfg EXCEPT !.BaseURL = IF @ = "" THEN "fileurl" ELSE @]
            /\ mpc' = "batch"
            /\ UNCHANGED <<logOut, exitCode, fatalCalls, sentTo>>
       ELSE \* LoadConfigFile failed: Fatal, then merge.go 21 reads the nil
            \* file config
            /\ Fatal("Error loading config file")
            /\ mpc' = IF LogExits("fatal") THEN "exited" ELSE "applyNil"
            /\ UNCHANGED <<cfg, sentTo>>
    /\ UNCHANGED currentLevel
    /\ UNCHANGED <<tvars, dvars, avars, fvars, svars, uvars, wvars>>

\* main.go 389-392
MainBatchCheck ==
    /\ mpc = "batch"
    /\ IF cfg.BatchDir = ""
       THEN /\ mpc' = "execute"
            /\ UNCHANGED <<logOut, exitCode, fatalCalls>>
       ELSE IF cfg.BaseURL = ""
       THEN /\ Fatal("--base is required for batch execution")
            /\ mpc' = IF LogExits("fatal") THEN "exited" ELSE "batchRun"
       ELSE /\ mpc' = "batchRun"
            /\ UNCHANGED <<logOut, exitCode, fatalCalls>>
    /\ UNCHANGED <<cfg, currentLevel, sentTo>>
    /\ UNCHANGED <<tvars, dvars, avars, fvars, svars, uvars, wvars>>

\* main.go 393-397: the directory is scanned
MainBatchGlob ==
    /\ mpc = "batchRun"
    /\ \E globOk \in BOOLEAN :
          IF globOk
          THEN /\ logOut' = LogAppend(logOut, "info", "Batch mode")
               /\ mpc' = "batchFiles"
               /\ UNCHANGED <<exitCode, fatalCalls>>
          ELSE /\ logOut' = LogAppend(LogAppend(logOut, "info", "Batch mode"),
                                      "fatal", "Error scanning batch directory")
               /\ exitCode' = IF LogExits("fatal") THEN 1 ELSE exitCode
               /\ fatalCalls' = fatalCalls + 1
               /\ mpc' = IF LogExits("fatal") THEN "exited" ELSE "batchNoFiles"
    /\ UNCHANGED <<cfg, currentLevel, sentTo>>
    /\ UNCHANGED <<tvars, dvars, avars, fvars, svars, uvars, wvars>>

\* main.go 400-444: the operations of the files are sent to the base URL and
\* the process exits with 0
MainBatchFiles ==
    /\ mpc \in {"batchFiles", "batchNoFiles"}
    /\ \E found \in BOOLEAN :
          sentTo' = IF found /\ mpc = "batchFiles" THEN Append(sentTo, cfg.BaseURL)
                    ELSE sentTo
    /\ exitCode' = 0
    /\ mpc' = "exited"
    /\ UNCHANGED <<cfg, currentLevel, logOut, fatalCalls>>
    /\ UNCHANGED <<tvars, dvars, avars, fvars, svars, uvars, wvars>>

\* main.go 447-454
MainExecuteCheck ==
    /\ mpc = "execute"
    /\ IF ~cfg.Execute
       THEN /\ mpc' = "rest"
            /\ UNCHANGED <<logOut, exitCode, fatalCalls>>
       ELSE IF cfg.BaseURL = ""
       THEN /\ Fatal("--base is required when using --execute")
            /\ mpc' = IF LogExits("fatal") THEN "exited" ELSE "query"
       ELSE /\ mpc' = "query"
            /\ UNCHANGED <<logOut, exitCode, fatalCalls>>
    /\ UNCHANGED <<cfg, currentLevel, sentTo>>
    /\ UNCHANGED <<tvars, dvars, avars, fvars, svars, uvars, wvars>>

\* main.go 455-467
MainExecuteQuery ==
    /\ mpc = "query"
    /\ IF cfg.Query \in {"string", "file"}
       THEN /\ mpc' = "variables"
            /\ UNCHANGED <<logOut, exitCode, fatalCalls>>
       ELSE /\ Fatal(IF cfg.Query = "unreadable" THEN "Error reading query file"
                     ELSE "No query provided")
            /\ mpc' = IF LogExits("fatal") THEN "exited" ELSE "variables"
    /\ UNCHANGED <<cfg, currentLevel, sentTo>>
    /\ UNCHANGED <<tvars, dvars, avars, fvars, svars, uvars, wvars>>

\* main.go 469-486: the variables are parsed, then SetupLogging
MainExecuteVariables ==
    /\ mpc = "variables"
    /\ IF cfg.Variables = "garbage"
       THEN /\ Fatal("Error parsing variables JSON")
            /\ mpc' = IF LogExits("fatal") THEN "exited" ELSE "send"
            /\ currentLevel' = IF LogExits("fatal") THEN currentLevel
                               ELSE LevelOf(cfg.LogLevel)
       ELSE /\ mpc' = "send"
            /\ currentLevel' = LevelOf(cfg.LogLevel)
            /\ UNCHANGED <<logOut, exitCode, fatalCalls>>
    /\ UNCHANGED <<cfg, sentTo>>
    /\ UNCHANGED <<tvars, dvars, avars, fvars, svars, uvars, wvars>>

\* main.go 488-507: the request is sent; its error is Fatal
MainExecuteSend ==
    /\ mpc = "send"
    /\ sentTo' = Append(sentTo, cfg.BaseURL)
    /\ \E ok \in BOOLEAN :
          IF ok
          THEN /\ mpc' = "print"
               /\ UNCHANGED <<logOut, exitCode, fatalCalls>>
          ELSE /\ Fatal("Execution error")
               /\ mpc' = IF LogExits("fatal") THEN "exited" ELSE "print"
    /\ UNCHANGED <<cfg, currentLevel>>
    /\ UNCHANGED <<tvars, dvars, avars, fvars, svars, uvars, wvars>>

\* main.go 509-515: the response is printed and the process exits with 0
MainExecutePrint ==
    /\ mpc = "print"
    /\ exitCode' = 0
    /\ mpc' = "exited"
    /\ UNCHANGED <<cfg, currentLevel, logOut, fatalCalls, sentTo>>
    /\ UNCHANGED <<tvars, dvars, avars, fvars, svars, uvars, wvars>>

\* merge.go 21: fileCfg is nil, the process panics (exit status 2)
MainApplyNil ==
    /\ mpc = "applyNil"
    /\ exitCode' = 2
    /\ mpc' = "exited"
    /\ UNCHANGED <<cfg, currentLevel, logOut, fatalCalls, sentTo>>
    /\ UNCHANGED <<tvars, dvars, avars, fvars, svars, uvars, wvars>>

MNext ==
    \/ MainConfig
    \/ MainBatchCheck
    \/ MainBatchGlob
    \/ MainBatchFiles
    \/ MainExecuteCheck
    \/ MainExecuteQuery
    \/ MainExecuteVariables
    \/ MainExecuteSend
    \/ MainExecutePrint
    \/ MainApplyNil

(***************************************************************************)
(* Specifications.                                                         *)
(***************************************************************************)
\* one transport call; discovery and audit are not running
InitTransport ==
    /\ tpc = "do"
    /\ tctx = "none"
    /\ tcancelAt = "never"
    /\ tvia = "none"
    /\ tresp = NoResp
    /\ tunder = <<>>
    /\ tret = NoRet
    /\ pret = NoProbe
    /\ pold = FALSE
    /\ stopOnFirst = FALSE
    /\ parent = "active"
    /\ ctxErr = "none"
    /\ cancelledBy = 0
    /\ wpc = [w \in Workers |-> "idle"]
    /\ wout = [w \in Workers |-> NoOut]
    /\ checkedEndpoints = 0
    /\ incAt = [w \in Workers |-> 0]
    /\ resultChan = <<>>
    /\ chanClosed = FALSE
    /\ cpc = "idle"
    /\ results = <<>>
    /\ hbLow = 0
    /\ seenChecked = -1
    /\ checkedAtReturn = -1
    /\ dret = NoDRet
    /\ caller = NoCaller
    /\ atargets = <<>>
    /\ aidx = 0
    /\ actx = "none"
    /\ aresp = NoRet
    /\ alog = <<>>
    /\ afiles = <<>>
    /\ introspectionEnabled = FALSE
    /\ lastSet = FALSE
    /\ asummary = "none"
    /\ amain = [version |-> "cli", detect |-> TRUE]
    /\ fvia = "none"
    /\ fparent = "active"
    /\ fctxErr = "none"
    /\ fdpc = "idle"
    /\ fres = NoRet
    /\ fdet = NoDetect
    /\ fold = NoEngine
    /\ fchan = <<>>
    /\ fcpc = "idle"
    /\ fret = NoEngine
    /\ fliveMatch = FALSE
    /\ sfile = [kind |-> "none", payload |-> MkPayload("", "", <<>>)]
    /\ sload = NoLoad
    /\ slist = [done |-> FALSE, queries |-> <<>>, mutations |-> <<>>]
    /\ spc = "idle"
    /\ gop = [kind |-> "none", field |-> "", maxDepth |-> 0, v1 |-> NoGen]
    /\ gstack = <<>>
    /\ visited = [k \in {} |-> 0]
    /\ gout = NoGen
    /\ gdocs = <<>>
    /\ uin = [wrappers |-> <<>>, term |-> TString]
    /\ ures = [done |-> TRUE, ref |-> TString, json |-> JNull]
    /\ srv = [ack |-> "none", accepts |-> {}, reject |-> "ignore"]
    /\ squery = ""
    /\ subpc = "idle"
    /\ msgIdx = 1
    /\ socks = <<>>
    /\ peer = <<>>
    /\ lastErr = <<>>
    /\ subret = NoSubRet
    /\ lastRead = "none"
    /\ cfg = NoConfig
    /\ mpc = "idle"
    /\ currentLevel = "info"
    /\ logOut = <<>>
    /\ exitCode = -1
    /\ fatalCalls = 0
    /\ sentTo = <<>>

SpecTransport == InitTransport /\ [][TNext]_vars

\* one discovery call in either mode
InitDiscover ==
    /\ tpc = "idle"
    /\ tctx = "none"
    /\ tcancelAt = "never"
    /\ tvia = "none"
    /\ tresp = NoResp
    /\ tunder = <<>>
    /\ tret = NoRet
    /\ pret = NoProbe
    /\ pold = FALSE
    /\ stopOnFirst \in BOOLEAN
    /\ parent = "active"
    /\ ctxErr = "none"
    /\ cancelledBy = 0
    /\ wpc = [w \in Workers |-> "start"]
    /\ wout = [w \in Workers |-> NoOut]
    /\ checkedEndpoints = 0
    /\ incAt = [w \in Workers |-> 0]
    /\ resultChan = <<>>
    /\ chanClosed = FALSE
    /\ cpc = "collect"
    /\ results = <<>>
    /\ hbLow = 0
    /\ seenChecked = -1
    /\ checkedAtReturn = -1
    /\ dret = NoDRet
    /\ caller = NoCaller
    /\ atargets = <<>>
    /\ aidx = 0
    /\ actx = "none"
    /\ aresp = NoRet
    /\ alog = <<>>
    /\ afiles = <<>>
    /\ introspectionEnabled = FALSE
    /\ lastSet = FALSE
    /\ asummary = "none"
    /\ amain = [version |-> "cli", detect |-> TRUE]
    /\ fvia = "none"
    /\ fparent = "active"
    /\ fctxErr = "none"
    /\ fdpc = "idle"
    /\ fres = NoRet
    /\ fdet = NoDetect
    /\ fold = NoEngine
    /\ fchan = <<>>
    /\ fcpc = "idle"
    /\ fret = NoEngine
    /\ fliveMatch = FALSE
    /\ sfile = [kind |-> "none", payload |-> MkPayload("", "", <<>>)]
    /\ sload = NoLoad
    /\ slist = [done |-> FALSE, queries |-> <<>>, mutations |-> <<>>]
    /\ spc = "idle"
    /\ gop = [kind |-> "none", field |-> "", maxDepth |-> 0, v1 |-> NoGen]
    /\ gstack = <<>>
    /\ visited = [k \in {} |-> 0]
    /\ gout = NoGen
    /\ gdocs = <<>>
    /\ uin = [wrappers |-> <<>>, term |-> TString]
    /\ ures = [done |-> TRUE, ref |-> TString, json |-> JNull]
    /\ srv = [ack |-> "none", accepts |-> {}, reject |-> "ignore"]
    /\ squery = ""
    /\ subpc = "idle"
    /\ msgIdx = 1
    /\ socks = <<>>
    /\ peer = <<>>
    /\ lastErr = <<>>
    /\ subret = NoSubRet
    /\ lastRead = "none"
    /\ cfg = NoConfig
    /\ mpc = "idle"
    /\ currentLevel = "info"
    /\ logOut = <<>>
    /\ exitCode = -1
    /\ fatalCalls = 0
    /\ sentTo = <<>>

SpecDiscover == InitDiscover /\ [][DNext]_vars

\* one audit run over a list of distinct target URLs
InitAudit ==
    /\ tpc = "idle"
    /\ tctx = "none"
    /\ tcancelAt = "never"
    /\ tvia = "none"
    /\ tresp = NoResp
    /\ tunder = <<>>
    /\ tret = NoRet
    /\ pret = NoProbe
    /\ pold = FALSE
    /\ stopOnFirst = FALSE
    /\ parent = "active"
    /\ ctxErr = "none"
    /\ cancelledBy = 0
    /\ wpc = [w \in Workers |-> "idle"]
    /\ wout = [w \in Workers |-> NoOut]
    /\ checkedEndpoints = 0
    /\ incAt = [w \in Workers |-> 0]
    /\ resultChan = <<>>
    /\ chanClosed = FALSE
    /\ cpc = "idle"
    /\ results = <<>>
    /\ hbLow = 0
    /\ seenChecked = -1
    /\ checkedAtReturn = -1
    /\ dret = NoDRet
    /\ caller = NoCaller
    /\ atargets \in TargetLists
    /\ aidx = 1
    /\ actx = "none"
    /\ aresp = NoRet
    /\ alog = <<>>
    /\ afiles = <<>>
    /\ introspectionEnabled = FALSE
    /\ lastSet = FALSE
    /\ asummary = "none"
    /\ amain = [version |-> "cli", detect |-> TRUE]
    /\ fvia = "none"
    /\ fparent = "active"
    /\ fctxErr = "none"
    /\ fdpc = "idle"
    /\ fres = NoRet
    /\ fdet = NoDetect
    /\ fold = NoEngine
    /\ fchan = <<>>
    /\ fcpc = "idle"
    /\ fret = NoEngine
    /\ fliveMatch = FALSE
    /\ sfile = [kind |-> "none", payload |-> MkPayload("", "", <<>>)]
    /\ sload = NoLoad
    /\ slist = [done |-> FALSE, queries |-> <<>>, mutations |-> <<>>]
    /\ spc = "idle"
    /\ gop = [kind |-> "none", field |-> "", maxDepth |-> 0, v1 |-> NoGen]
    /\ gstack = <<>>
    /\ visited = [k \in {} |-> 0]
    /\ gout = NoGen
    /\ gdocs = <<>>
    /\ uin = [wrappers |-> <<>>, term |-> TString]
    /\ ures = [done |-> TRUE, ref |-> TString, json |-> JNull]
    /\ srv = [ack |-> "none", accepts |-> {}, reject |-> "ignore"]
    /\ squery = ""
    /\ subpc = "idle"
    /\ msgIdx = 1
    /\ socks = <<>>
    /\ peer = <<>>
    /\ lastErr = <<>>
    /\ subret = NoSubRet
    /\ lastRead = "none"
    /\ cfg = NoConfig
    /\ mpc = "idle"
    /\ currentLevel = "info"
    /\ logOut = <<>>
    /\ exitCode = -1
    /\ fatalCalls = 0
    /\ sentTo = <<>>

SpecAudit == InitAudit /\ [][ANext]_vars

MainVersions == [version : {"inline", "cli"}, detect : BOOLEAN]

\* main.go 78-99 and 571-589: the detected endpoints (an empty detection
\* ends the process), or the base URL alone
MainTargets(detect) ==
    IF detect THEN TargetLists ELSE { <<baseURL>> : baseURL \in TargetURLs }

\* the audit step of one run of main
InitMainAudit ==
    /\ tpc = "idle"
    /\ tctx = "none"
    /\ tcancelAt = "never"
    /\ tvia = "none"
    /\ tresp = NoResp
    /\ tunder = <<>>
    /\ tret = NoRet
    /\ pret = NoProbe
    /\ pold = FALSE
    /\ stopOnFirst = FALSE
    /\ parent = "active"
    /\ ctxErr = "none"
    /\ cancelledBy = 0
    /\ wpc = [w \in Workers |-> "idle"]
    /\ wout = [w \in Workers |-> NoOut]
    /\ checkedEndpoints = 0
    /\ incAt = [w \in Workers |-> 0]
    /\ resultChan = <<>>
    /\ chanClosed = FALSE
    /\ cpc = "idle"
    /\ results = <<>>
    /\ hbLow = 0
    /\ seenChecked = -1
    /\ checkedAtReturn = -1
    /\ dret = NoDRet
    /\ caller = NoCaller
    /\ amain \in MainVersions
    /\ atargets \in MainTargets(amain.detect)
    /\ aidx = 1
    /\ actx = "none"
    /\ aresp = NoRet
    /\ alog = <<>>
    /\ afiles = <<>>
    /\ introspectionEnabled = FALSE
    /\ lastSet = FALSE
    /\ asummary = "none"
    /\ fvia = "none"
    /\ fparent = "active"
    /\ fctxErr = "none"
    /\ fdpc = "idle"
    /\ fres = NoRet
    /\ fdet = NoDetect
    /\ fold = NoEngine
    /\ fchan = <<>>
    /\ fcpc = "idle"
    /\ fret = NoEngine
    /\ fliveMatch = FALSE
    /\ sfile = [kind |-> "none", payload |-> MkPayload("", "", <<>>)]
    /\ sload = NoLoad
    /\ slist = [done |-> FALSE, queries |-> <<>>, mutations |-> <<>>]
    /\ spc = "idle"
    /\ gop = [kind |-> "none", field |-> "", maxDepth |-> 0, v1 |-> NoGen]
    /\ gstack = <<>>
    /\ visited = [k \in {} |-> 0]
    /\ gout = NoGen
    /\ gdocs = <<>>
    /\ uin = [wrappers |-> <<>>, term |-> TString]
    /\ ures = [done |-> TRUE, ref |-> TString, json |-> JNull]
    /\ srv = [ack |-> "none", accepts |-> {}, reject |-> "ignore"]
    /\ squery = ""
    /\ subpc = "idle"
    /\ msgIdx = 1
    /\ socks = <<>>
    /\ peer = <<>>
    /\ lastErr = <<>>
    /\ subret = NoSubRet
    /\ lastRead = "none"
    /\ cfg = NoConfig
    /\ mpc = "idle"
    /\ currentLevel = "info"
    /\ logOut = <<>>
    /\ exitCode = -1
    /\ fatalCalls = 0
    /\ sentTo = <<>>

SpecMainAudit == InitMainAudit /\ [][MainAuditNext]_vars


\* one fingerprinting call
InitFingerprint ==
    /\ tpc = "idle"
    /\ tctx = "none"
    /\ tcancelAt = "never"
    /\ tvia = "none"
    /\ tresp = NoResp
    /\ tunder = <<>>
    /\ tret = NoRet
    /\ pret = NoProbe
    /\ pold = FALSE
    /\ stopOnFirst = FALSE
    /\ parent = "active"
    /\ ctxErr = "none"
    /\ cancelledBy = 0
    /\ wpc = [w \in Workers |-> "idle"]
    /\ wout = [w \in Workers |-> NoOut]
    /\ checkedEndpoints = 0
    /\ incAt = [w \in Workers |-> 0]
    /\ resultChan = <<>>
    /\ chanClosed = FALSE
    /\ cpc = "idle"
    /\ results = <<>>
    /\ hbLow = 0
    /\ seenChecked = -1
    /\ checkedAtReturn = -1
    /\ dret = NoDRet
    /\ caller = NoCaller
    /\ atargets = <<>>
    /\ aidx = 0
    /\ actx = "none"
    /\ aresp = NoRet
    /\ alog = <<>>
    /\ afiles = <<>>
    /\ introspectionEnabled = FALSE
    /\ lastSet = FALSE
    /\ asummary = "none"
    /\ amain = [version |-> "cli", detect |-> TRUE]
    /\ fvia \in {"DetectEngine", "DetectEngineWithContext"}
    /\ fparent = "active"
    /\ fctxErr = "none"
    /\ fdpc = "start"
    /\ fres = NoRet
    /\ fdet = NoDetect
    /\ fold = NoEngine
    /\ fchan = <<>>
    /\ fcpc = "select"
    /\ fret = NoEngine
    /\ fliveMatch = FALSE
    /\ sfile = [kind |-> "none", payload |-> MkPayload("", "", <<>>)]
    /\ sload = NoLoad
    /\ slist = [done |-> FALSE, queries |-> <<>>, mutations |-> <<>>]
    /\ spc = "idle"
    /\ gop = [kind |-> "none", field |-> "", maxDepth |-> 0, v1 |-> NoGen]
    /\ gstack = <<>>
    /\ visited = [k \in {} |-> 0]
    /\ gout = NoGen
    /\ gdocs = <<>>
    /\ uin = [wrappers |-> <<>>, term |-> TString]
    /\ ures = [done |-> TRUE, ref |-> TString, json |-> JNull]
    /\ srv = [ack |-> "none", accepts |-> {}, reject |-> "ignore"]
    /\ squery = ""
    /\ subpc = "idle"
    /\ msgIdx = 1
    /\ socks = <<>>
    /\ peer = <<>>
    /\ lastErr = <<>>
    /\ subret = NoSubRet
    /\ lastRead = "none"
    /\ cfg = NoConfig
    /\ mpc = "idle"
    /\ currentLevel = "info"
    /\ logOut = <<>>
    /\ exitCode = -1
    /\ fatalCalls = 0
    /\ sentTo = <<>>

SpecFingerprint == InitFingerprint /\ [][FNext]_vars

\* The goroutines of one call are scheduled fairly; the caller's context is the
\* caller's business: it may have no deadline and never be cancelled.
SpecFingerprintFair ==
    /\ InitFingerprint
    /\ [][FNext]_vars
    /\ WF_vars(DetectorRequest \/ DetectorSend \/ DetectorCancel)
    /\ WF_vars(SelectResult \/ SelectDone \/ Recheck)

\* loading one schema file, listing its operations and one synthesis call;
\* the calls run to completion
InitSchema ==
    /\ tpc = "idle"
    /\ tctx = "none"
    /\ tcancelAt = "never"
    /\ tvia = "none"
    /\ tresp = NoResp
    /\ tunder = <<>>
    /\ tret = NoRet
    /\ pret = NoProbe
    /\ pold = FALSE
    /\ stopOnFirst = FALSE
    /\ parent = "active"
    /\ ctxErr = "none"
    /\ cancelledBy = 0
    /\ wpc = [w \in Workers |-> "idle"]
    /\ wout = [w \in Workers |-> NoOut]
    /\ checkedEndpoints = 0
    /\ incAt = [w \in Workers |-> 0]
    /\ resultChan = <<>>
    /\ chanClosed = FALSE
    /\ cpc = "idle"
    /\ results = <<>>
    /\ hbLow = 0
    /\ seenChecked = -1
    /\ checkedAtReturn = -1
    /\ dret = NoDRet
    /\ caller = NoCaller
    /\ atargets = <<>>
    /\ aidx = 0
    /\ actx = "none"
    /\ aresp = NoRet
    /\ alog = <<>>
    /\ afiles = <<>>
    /\ introspectionEnabled = FALSE
    /\ lastSet = FALSE
    /\ asummary = "none"
    /\ amain = [version |-> "cli", detect |-> TRUE]
    /\ fvia = "none"
    /\ fparent = "active"
    /\ fctxErr = "none"
    /\ fdpc = "idle"
    /\ fres = NoRet
    /\ fdet = NoDetect
    /\ fold = NoEngine
    /\ fchan = <<>>
    /\ fcpc = "idle"
    /\ fret = NoEngine
    /\ fliveMatch = FALSE
    /\ sfile \in SchemaFiles
    /\ sload = NoLoad
    /\ slist = [done |-> FALSE, queries |-> <<>>, mutations |-> <<>>]
    /\ spc = "load"
    /\ gop = [kind |-> "none", field |-> "", maxDepth |-> 0, v1 |-> NoGen]
    /\ gstack = <<>>
    /\ visited = [k \in {} |-> 0]
    /\ gout = NoGen
    /\ gdocs = <<>>
    /\ uin = [wrappers |-> <<>>, term |-> TString]
    /\ ures = [done |-> TRUE, ref |-> TString, json |-> JNull]
    /\ srv = [ack |-> "none", accepts |-> {}, reject |-> "ignore"]
    /\ squery = ""
    /\ subpc = "idle"
    /\ msgIdx = 1
    /\ socks = <<>>
    /\ peer = <<>>
    /\ lastErr = <<>>
    /\ subret = NoSubRet
    /\ lastRead = "none"
    /\ cfg = NoConfig
    /\ mpc = "idle"
    /\ currentLevel = "info"
    /\ logOut = <<>>
    /\ exitCode = -1
    /\ fatalCalls = 0
    /\ sentTo = <<>>

SpecSchema == InitSchema /\ [][SNext]_vars /\ WF_vars(SNext)

\* one unwrapType call
InitUnwrap ==
    /\ tpc = "idle"
    /\ tctx = "none"
    /\ tcancelAt = "never"
    /\ tvia = "none"
    /\ tresp = NoResp
    /\ tunder = <<>>
    /\ tret = NoRet
    /\ pret = NoProbe
    /\ pold = FALSE
    /\ stopOnFirst = FALSE
    /\ parent = "active"
    /\ ctxErr = "none"
    /\ cancelledBy = 0
    /\ wpc = [w \in Workers |-> "idle"]
    /\ wout = [w \in Workers |-> NoOut]
    /\ checkedEndpoints = 0
    /\ incAt = [w \in Workers |-> 0]
    /\ resultChan = <<>>
    /\ chanClosed = FALSE
    /\ cpc = "idle"
    /\ results = <<>>
    /\ hbLow = 0
    /\ seenChecked = -1
    /\ checkedAtReturn = -1
    /\ dret = NoDRet
    /\ caller = NoCaller
    /\ atargets = <<>>
    /\ aidx = 0
    /\ actx = "none"
    /\ aresp = NoRet
    /\ alog = <<>>
    /\ afiles = <<>>
    /\ introspectionEnabled = FALSE
    /\ lastSet = FALSE
    /\ asummary = "none"
    /\ amain = [version |-> "cli", detect |-> TRUE]
    /\ fvia = "none"
    /\ fparent = "active"
    /\ fctxErr = "none"
    /\ fdpc = "idle"
    /\ fres = NoRet
    /\ fdet = NoDetect
    /\ fold = NoEngine
    /\ fchan = <<>>
    /\ fcpc = "idle"
    /\ fret = NoEngine
    /\ fliveMatch = FALSE
    /\ sfile = [kind |-> "none", payload |-> MkPayload("", "", <<>>)]
    /\ sload = NoLoad
    /\ slist = [done |-> FALSE, queries |-> <<>>, mutations |-> <<>>]
    /\ spc = "idle"
    /\ gop = [kind |-> "none", field |-> "", maxDepth |-> 0, v1 |-> NoGen]
    /\ gstack = <<>>
    /\ visited = [k \in {} |-> 0]
    /\ gout = NoGen
    /\ gdocs = <<>>
    /\ uin \in [wrappers : WrapperSeqs, term : Terminals]
    /\ ures = [done |-> FALSE, ref |-> TString, json |-> JNull]
    /\ srv = [ack |-> "none", accepts |-> {}, reject |-> "ignore"]
    /\ squery = ""
    /\ subpc = "idle"
    /\ msgIdx = 1
    /\ socks = <<>>
    /\ peer = <<>>
    /\ lastErr = <<>>
    /\ subret = NoSubRet
    /\ lastRead = "none"
    /\ cfg = NoConfig
    /\ mpc = "idle"
    /\ currentLevel = "info"
    /\ logOut = <<>>
    /\ exitCode = -1
    /\ fatalCalls = 0
    /\ sentTo = <<>>

SpecUnwrap == InitUnwrap /\ [][UNext]_vars

\* one run of the subscription mode: SubscribeToQuery, then Listen
InitSubscribe ==
    /\ tpc = "idle"
    /\ tctx = "none"
    /\ tcancelAt = "never"
    /\ tvia = "none"
    /\ tresp = NoResp
    /\ tunder = <<>>
    /\ tret = NoRet
    /\ pret = NoProbe
    /\ pold = FALSE
    /\ stopOnFirst = FALSE
    /\ parent = "active"
    /\ ctxErr = "none"
    /\ cancelledBy = 0
    /\ wpc = [w \in Workers |-> "idle"]
    /\ wout = [w \in Workers |-> NoOut]
    /\ checkedEndpoints = 0
    /\ incAt = [w \in Workers |-> 0]
    /\ resultChan = <<>>
    /\ chanClosed = FALSE
    /\ cpc = "idle"
    /\ results = <<>>
    /\ hbLow = 0
    /\ seenChecked = -1
    /\ checkedAtReturn = -1
    /\ dret = NoDRet
    /\ caller = NoCaller
    /\ atargets = <<>>
    /\ aidx = 0
    /\ actx = "none"
    /\ aresp = NoRet
    /\ alog = <<>>
    /\ afiles = <<>>
    /\ introspectionEnabled = FALSE
    /\ lastSet = FALSE
    /\ asummary = "none"
    /\ amain = [version |-> "cli", detect |-> TRUE]
    /\ fvia = "none"
    /\ fparent = "active"
    /\ fctxErr = "none"
    /\ fdpc = "idle"
    /\ fres = NoRet
    /\ fdet = NoDetect
    /\ fold = NoEngine
    /\ fchan = <<>>
    /\ fcpc = "idle"
    /\ fret = NoEngine
    /\ fliveMatch = FALSE
    /\ sfile = [kind |-> "none", payload |-> MkPayload("", "", <<>>)]
    /\ sload = NoLoad
    /\ slist = [done |-> FALSE, queries |-> <<>>, mutations |-> <<>>]
    /\ spc = "idle"
    /\ gop = [kind |-> "none", field |-> "", maxDepth |-> 0, v1 |-> NoGen]
    /\ gstack = <<>>
    /\ visited = [k \in {} |-> 0]
    /\ gout = NoGen
    /\ gdocs = <<>>
    /\ uin = [wrappers |-> <<>>, term |-> TString]
    /\ ures = [done |-> TRUE, ref |-> TString, json |-> JNull]
    /\ srv \in Servers
    /\ squery \in Queries
    /\ subpc = "dial"
    /\ msgIdx = 1
    /\ socks = <<>>
    /\ peer = <<>>
    /\ lastErr = <<>>
    /\ subret = NoSubRet
    /\ lastRead = "none"
    /\ cfg = NoConfig
    /\ mpc = "idle"
    /\ currentLevel = "info"
    /\ logOut = <<>>
    /\ exitCode = -1
    /\ fatalCalls = 0
    /\ sentTo = <<>>

SpecSubscribe == InitSubscribe /\ [][WNext]_vars

\* one run of main up to the end of the batch and execute modes; the logger
\* starts at its default level (logger.go 25)
InitMain ==
    /\ tpc = "idle"
    /\ tctx = "none"
    /\ tcancelAt = "never"
    /\ tvia = "none"
    /\ tresp = NoResp
    /\ tunder = <<>>
    /\ tret = NoRet
    /\ pret = NoProbe
    /\ pold = FALSE
    /\ stopOnFirst = FALSE
    /\ parent = "active"
    /\ ctxErr = "none"
    /\ cancelledBy = 0
    /\ wpc = [w \in Workers |-> "idle"]
    /\ wout = [w \in Workers |-> NoOut]
    /\ checkedEndpoints = 0
    /\ incAt = [w \in Workers |-> 0]
    /\ resultChan = <<>>
    /\ chanClosed = FALSE
    /\ cpc = "idle"
    /\ results = <<>>
    /\ hbLow = 0
    /\ seenChecked = -1
    /\ checkedAtReturn = -1
    /\ dret = NoDRet
    /\ caller = NoCaller
    /\ atargets = <<>>
    /\ aidx = 0
    /\ actx = "none"
    /\ aresp = NoRet
    /\ alog = <<>>
    /\ afiles = <<>>
    /\ introspectionEnabled = FALSE
    /\ lastSet = FALSE
    /\ asummary = "none"
    /\ amain = [version |-> "cli", detect |-> TRUE]
    /\ fvia = "none"
    /\ fparent = "active"
    /\ fctxErr = "none"
    /\ fdpc = "idle"
    /\ fres = NoRet
    /\ fdet = NoDetect
    /\ fold = NoEngine
    /\ fchan = <<>>
    /\ fcpc = "idle"
    /\ fret = NoEngine
    /\ fliveMatch = FALSE
    /\ sfile = [kind |-> "none", payload |-> MkPayload("", "", <<>>)]
    /\ sload = NoLoad
    /\ slist = [done |-> FALSE, queries |-> <<>>, mutations |-> <<>>]
    /\ spc = "idle"
    /\ gop = [kind |-> "none", field |-> "", maxDepth |-> 0, v1 |-> NoGen]
    /\ gstack = <<>>
    /\ visited = [k \in {} |-> 0]
    /\ gout = NoGen
    /\ gdocs = <<>>
    /\ uin = [wrappers |-> <<>>, term |-> TString]
    /\ ures = [done |-> TRUE, ref |-> TString, json |-> JNull]
    /\ srv = [ack |-> "none", accepts |-> {}, reject |-> "ignore"]
    /\ squery = ""
    /\ subpc = "idle"
    /\ msgIdx = 1
    /\ socks = <<>>
    /\ peer = <<>>
    /\ lastErr = <<>>
    /\ subret = NoSubRet
    /\ lastRead = "none"
    /\ cfg \in Configs
    /\ mpc = "config"
    /\ currentLevel = "info"
    /\ logOut = <<>>
    /\ exitCode = -1
    /\ fatalCalls = 0
    /\ sentTo = <<>>

SpecMain == InitMain /\ [][MNext]_vars



(***************************************************************************)
(* Properties of discovery (checked under SpecDiscover).                   *)
(***************************************************************************)
Range(q) == { q[i] : i \in DOMAIN q }

\* workers whose probe tested positive
Positives == { w \in Workers : wout[w].isValid }

\* workers that have put their endpoint on the channel
Enqueued == { w \in Workers : wout[w].isValid /\ wpc[w] \in {"cancel", "done"} }

Returned == cpc \in {"returned", "finished"}

\* every candidate had been probed when the collector reached DONE
AllProbedAtReturn == checkedAtReturn = NumPaths

SoftKinds == {"HTMLResponse", "NonJSONResponse", "Canceled", "TimedOut"}

\* C1: in stop-on-first mode, with the parent context neither cancelled nor
\* expired and at least one candidate testing positive, the call returns
\* exactly one endpoint and DetectGraphQLEndpointWithContext returns it
\* instead of the 'not detected' error, in every interleaving.
C1_StopOnFirstNeverDrops ==
    (cpc = "finished" /\ stopOnFirst /\ parent = "active" /\ Positives # {})
        => /\ dret.err = "nil"
           /\ Len(dret.results) = 1
           /\ caller.err = "nil"
           /\ caller.targets = dret.results

C3_AtMostOne ==
    (Returned /\ stopOnFirst)
        => /\ Len(dret.results) <= 1
           /\ \A i \in DOMAIN dret.results : EndpointOwner(dret.results[i]) \in Positives
           /\ Len(caller.targets) <= 1
           /\ Range(caller.targets) \subseteq Range(dret.results)

C3_Witness ==
    /\ cpc = "finished"
    /\ stopOnFirst
    /\ Cardinality(Enqueued) >= 2
    /\ Len(dret.results) = 1
    /\ caller.targets = dret.results

\* C4 as claimed: when every candidate has been probed and none tested
\* positive, DetectAllGraphQLEndpointsWithContext itself fails with the
\* NoEndpointsDetected error, in both modes (stated for a parent context
\* that stays live, the plain case of the claim).
C4_Original ==
    (Returned /\ parent = "active" /\ AllProbedAtReturn /\ Positives = {})
        => dret.err = ErrNotDetected

\* C4 as amended: when every candidate has been probed and none tested
\* positive, DetectAllGraphQLEndpointsWithContext returns an empty list and
\* never the NoEndpointsDetected error; its error is nil, except that after a
\* cancelled or expired parent context the unsynchronised read of the counter
\* may still yield the 'unable to check' error.  On the nil error the failure
\* is raised by the caller: 'not detected' by DetectGraphQLEndpointWithContext
\* (stop-on-first), 'No GraphQL endpoints detected' by main (collect-all).
C4_EmptyListThenCallerFails ==
    (Returned /\ AllProbedAtReturn /\ Positives = {})
        => /\ dret.results = <<>>
           /\ dret.err \in {"nil", ErrUnable}
           /\ (dret.err = ErrUnable => parent # "active")
           /\ (cpc = "finished" /\ dret.err = "nil")
                 => /\ caller.targets = <<>>
                    /\ caller.err = IF stopOnFirst THEN ErrNotDetected ELSE ErrNoneDetected

C4_Witness ==
    /\ cpc = "finished"
    /\ AllProbedAtReturn
    /\ Positives = {}
    /\ dret = MkDRet(<<>>, "nil")
    /\ caller.err = ErrNoneDetected

\* C5: when every probe fails with a transport-level NetworkError, the call
\* returns the 'unable to check any GraphQL endpoints' error (stated for a
\* parent context that stays live, the plain case of the claim).
C5_AllNetworkErrorsUnable ==
    (Returned /\ parent = "active" /\ AllProbedAtReturn
       /\ \A w \in Workers : wout[w].kind = "NetworkError")
        => dret.err = ErrUnable

TReturned == tpc \in {"returned", "probed"}

\* HTTP 200, Content-Type text/html, body beginning with '<'
IsHtmlPage(r) == r.status = 200 /\ r.ctype = CTHtml /\ r.body.first = "<"

\* C6 as claimed: a response with HTTP 200, Content-Type text/html and a body
\* beginning with '<' is classified as HTMLResponse.
C6_Original ==
    (TReturned /\ tvia = "classify" /\ IsHtmlPage(tresp)) => tret.err.kind = "HTMLResponse"

\* C6 as amended: such a response is classified as NonJSONResponse, because
\* the Content-Type test precedes the body test; it is never a ParseError and
\* never a success.  HTMLResponse is returned exactly for a body that fails to
\* parse and begins with '<' under a Content-Type that is absent or contains
\* "json" (in any letter case).
C6_HtmlPageIsNonJSON ==
    (TReturned /\ tvia = "classify")
        => /\ IsHtmlPage(tresp) => tret.err.kind = "NonJSONResponse"
           /\ tret.err.kind = "HTMLResponse"
                 <=> /\ tresp.ctype \in {CTNone, CTJson, CTJsonUpper}
                     /\ tresp.body.first = "<"
           /\ tret.err.kind = "ParseError" => tresp.body.first # "<"

C6_Witness ==
    /\ tpc = "probed"
    /\ tvia = "classify"
    /\ IsHtmlPage(tresp)
    /\ tret.err.kind = "NonJSONResponse"
    /\ pret = MkProbe(FALSE, NoErr)

\* C7: whenever the supplied context is cancelled (its deadline elapses)
\* while the call is sending the request or reading the body, the call
\* returns Canceled (TimedOut) and no other kind of error.
C7_CancellationClassifiedFirst ==
    (TReturned /\ tcancelAt \in {"do", "doerr", "read"})
        => /\ tctx = "Canceled" => tret.err.kind = "Canceled"
           /\ tctx = "DeadlineExceeded" => tret.err.kind = "TimedOut"

\* the claim's reading of a reply, written out on the decoded JSON
HasRootTypename(v) ==
    /\ v.t = "obj"
    /\ "data" \in DOMAIN v.o
    /\ v.o["data"].t = "obj"
    /\ "__typename" \in DOMAIN v.o["data"].o
    /\ v.o["data"].o["__typename"] \in {JStr("Query"), JStr("QueryRoot"), JStr("query_root")}

HasNonEmptyErrors(v) ==
    /\ v.t = "obj"
    /\ "errors" \in DOMAIN v.o
    /\ v.o["errors"].t = "arr"
    /\ v.o["errors"].a # <<>>

\* C8: on a successfully parsed reply the probe is positive exactly when
\* data.__typename is Query, QueryRoot or query_root, or errors is a non-empty
\* array; every other parsed reply is negative, and neither case is an error.
\* The context-free IsGraphQLEndpoint of the first version agrees.
C8_ProbePositiveIff ==
    (tpc = "probed" /\ tret.err.kind = "nil")
        => /\ pret.isValid <=> (HasRootTypename(tret.result) \/ HasNonEmptyErrors(tret.result))
           /\ pret.err = NoErr
           /\ pold = pret.isValid

C8_Witness ==
    /\ tpc = "probed"
    /\ tret.err.kind = "nil"
    /\ pret.isValid
    /\ ~HasRootTypename(tret.result)
    /\ HasNonEmptyErrors(tret.result)


(***************************************************************************)
(* Properties of the audit (checked under SpecAudit).                      *)
(***************************************************************************)
\* data.__schema.types is a non-empty array, written out on the decoded JSON
HasNonEmptyTypes(v) ==
    /\ v.t = "obj"
    /\ "data" \in DOMAIN v.o
    /\ v.o["data"].t = "obj"
    /\ "__schema" \in DOMAIN v.o["data"].o
    /\ v.o["data"].o["__schema"].t = "obj"
    /\ "types" \in DOMAIN v.o["data"].o["__schema"].o
    /\ v.o["data"].o["__schema"].o["types"].t = "arr"
    /\ v.o["data"].o["__schema"].o["types"].a # <<>>

\* the events logged for the target audited last
LastEvents == alog[Len(alog)].events

\* C10: for a target whose introspection check returned a response, the
\* audit treats introspection as enabled exactly when data is an object,
\* data.__schema is an object and __schema.types is a non-empty array; for
\* every other response (empty types, no __schema, errors only) it logs the
\* endpoint as introspection-disabled, not as an error.
C10_IntrospectionEnabledIff ==
    (Len(alog) > 0 /\ aresp.err.kind = "nil")
        => /\ IsIntrospectionEnabled(aresp.result) <=> HasNonEmptyTypes(aresp.result)
           /\ HasNonEmptyTypes(aresp.result) <=> LastEvents[1] = "enabled"
           /\ ~HasNonEmptyTypes(aresp.result) => LastEvents = <<"disabled">>

C10_Witness ==
    /\ Len(alog) > 0
    /\ aresp = MkRet(EnvNoSchema, NoErr)
    /\ LastEvents = <<"disabled">>
    /\ ~introspectionEnabled

\* C11: the audit handles every target of the list in order, exactly once
\* each, whatever an earlier target produced (soft or hard error, failed file
\* write), and the result saved for an earlier target is still on disk,
\* under that target's file name and with that target's content.
C11_AuditNeverAborted ==
    aidx >= 1
        => /\ Len(alog) = aidx - 1
           /\ \A i \in DOMAIN alog :
                 /\ alog[i].url = atargets[i]
                 /\ alog[i].events = <<"enabled", "saved">>
                       => [name |-> generateOutputFileName("introspection", atargets[i]),
                           from |-> atargets[i]] \in Range(afiles)

(***************************************************************************)
(* Properties of the fingerprinter (checked under SpecFingerprint).        *)
(***************************************************************************)
\* errors is an array with an element that is an object whose message is a
\* string containing the expected text, written out on the decoded JSON
HasApolloError(v) ==
    /\ v.t = "obj"
    /\ "errors" \in DOMAIN v.o
    /\ v.o["errors"].t = "arr"
    /\ \E i \in DOMAIN v.o["errors"].a :
          LET el == v.o["errors"].a[i]
          IN  /\ el.t = "obj"
              /\ "message" \in DOMAIN el.o
              /\ el.o["message"].t = "str"
              /\ \E k \in 1..(Len(el.o["message"].w) - Len(expectedErrorSubstring) + 1) :
                    SubSeq(el.o["message"].w, k, k + Len(expectedErrorSubstring) - 1)
                        = expectedErrorSubstring

\* the detector goroutine has its answer
DetectorDecided == fdpc \in {"send", "cancel", "done"}

\* the detector reported a match
FpMatched == DetectorDecided /\ fdet.err.kind = "nil" /\ fdet.isApollo

\* C12: on a parsed reply DetectApolloWithContext is true exactly when the
\* errors array has an element whose message contains the expected text;
\* then the engine name is "Apollo" (sequential DetectEngine always,
\* DetectEngineWithContext while the caller's context stays live), and for
\* an empty, missing or unrelated errors array the result is the
\* 'no known GraphQL engine detected' failure.
C12_FingerprintMatching ==
    (DetectorDecided /\ fres.err.kind = "nil")
        => /\ fdet.err = NoErr
           /\ fdet.isApollo <=> HasApolloError(fres.result)
           /\ HasApolloError(fres.result) => fold = MkEngine("Apollo", "nil")
           /\ ~HasApolloError(fres.result) => fold = MkEngine("", ErrNoEngineV1)
           /\ fcpc = "returned"
                 => /\ (HasApolloError(fres.result) /\ fparent = "active")
                          => fret = MkEngine("Apollo", "nil")
                    /\ ~HasApolloError(fres.result) => fret = MkEngine("", ErrNoEngine)

C12_Witness ==
    /\ fcpc = "returned"
    /\ fparent = "active"
    /\ fres = MkRet(JObj([errors |-> JArr(<<TextItem(UnknownDirectiveText),
                                            TextItem(ApolloText)>>)]), NoErr)
    /\ fdet = MkDetect(TRUE, NoErr)
    /\ fret = MkEngine("Apollo", "nil")

ThePayload == sfile.payload
PayloadTypeNames == { ThePayload.types[i].name : i \in DOMAIN ThePayload.types }
Loaded == sload.err # "unset"

\* the type of the payload that a root name refers to
TypeNamed(n) ==
    ThePayload.types[CHOOSE i \in DOMAIN ThePayload.types :
                        /\ ThePayload.types[i].name = n
                        /\ \A j \in DOMAIN ThePayload.types :
                              j > i => ThePayload.types[j].name # n]

NamesInOrder(type) == [i \in DOMAIN type.fields |-> type.fields[i].name]

\* the node at the end of the ofType chain of a type reference
RECURSIVE TerminalOf(_)
TerminalOf(tr) == IF tr.ofType = <<>> THEN tr ELSE TerminalOf(tr.ofType[1])

\* C14: when the payload's queryType names no type of the types list (or
\* names none), LoadFromFile returns an error and no schema.
C14_QueryRootRequired ==
    (Loaded /\ sfile.kind = "json" /\ ThePayload.queryType \notin PayloadTypeNames)
        => sload.err # "nil"

MutationUnresolved ==
    /\ sfile.kind = "json"
    /\ ThePayload.mutationType = "" \/ ThePayload.mutationType \notin PayloadTypeNames

\* C15: when mutationType is absent or names no type of the list, loading
\* succeeds with a nil Mutation root, ListMutations is empty and
\* GenerateMutation fails for every field name; otherwise ListQueries and
\* ListMutations are the root type's field names in schema order.
C15_MissingMutationRootValid ==
    /\ (Loaded /\ MutationUnresolved)
          => (sload.err = "nil" /\ sload.schema.Mutation = <<>>)
    /\ (slist.done /\ MutationUnresolved) => slist.mutations = <<>>
    /\ (spc = "done" /\ MutationUnresolved /\ gop.kind = "mutation")
          => /\ gout = MkGen(<<>>, ErrNoRoot("mutation"))
             /\ gop.v1 = MkGen(<<>>, ErrNoRoot("mutation"))
    /\ (slist.done /\ ThePayload.queryType \in PayloadTypeNames)
          => slist.queries = NamesInOrder(TypeNamed(ThePayload.queryType))
    /\ (slist.done /\ ~MutationUnresolved)
          => slist.mutations = NamesInOrder(TypeNamed(ThePayload.mutationType))

C15_Witness ==
    /\ spc = "done"
    /\ ThePayload.mutationType = "Missing"
    /\ sload.err = "nil"
    /\ slist.queries = <<"a", "name", "color", "node", "search">>
    /\ slist.mutations = <<>>
    /\ gop.kind = "mutation"
    /\ gop.field = "createA"
    /\ gout.err = ErrNoRoot("mutation")

\* C16: for a chain of LIST/NON_NULL wrappers of any depth around a
\* terminal node, unwrapType returns that terminal node, whose kind is
\* neither LIST nor NON_NULL; a terminal reference is returned unchanged.
\* The generator's unwrapType does the same on the JSON form.
C16_UnwrapInnermost ==
    ures.done
        => /\ ures.ref = uin.term
           /\ ures.ref.kind \notin Wrappers
           /\ ures.json = RefJSON(uin.term)
           /\ uin.wrappers = <<>> => ures.ref = BuildRef(uin.wrappers, uin.term)

C16_Witness ==
    /\ ures.done
    /\ uin.wrappers = <<"NON_NULL", "LIST", "NON_NULL">>
    /\ uin.term = TString
    /\ ures.ref = TString

Opens(doc, n) == Cardinality({ i \in 1..n : doc[i] = "{" })
Closes(doc, n) == Cardinality({ i \in 1..n : doc[i] = "}" })
Balanced(doc) ==
    /\ \A n \in 0..Len(doc) : Opens(doc, n) >= Closes(doc, n)
    /\ Opens(doc, Len(doc)) = Closes(doc, Len(doc))

GenSucceeded == spc = "done" /\ gout.err = ErrNil

\* C17: every synthesis call terminates, also on a schema whose types refer
\* to themselves, and the document it returns has matched braces, for every
\* depth budget >= 1.
C17_CycleSafety ==
    /\ [](GenSucceeded => Balanced(gout.doc))
    /\ (spc = "walk" ~> spc = "done")

C17_Witness ==
    /\ GenSucceeded
    /\ ThePayload.types = CyclicTypes
    /\ gop.field = "a"
    /\ gop.maxDepth = 1
    /\ \E i \in DOMAIN gout.doc : gout.doc[i] = "self"
    /\ Balanced(gout.doc)

\* C18: the returned document contains no sentinel text: a field whose
\* nested selection is cut off by the depth budget or the visit ceiling is
\* emitted as a bare name.
C18_NoSentinelInDocument ==
    GenSucceeded => \A i \in DOMAIN gout.doc : ~IsSentinelToken(gout.doc[i])

\* the root field the call was made for
RootField ==
    LET root == IF gop.kind = "query" THEN sload.schema.Query ELSE sload.schema.Mutation
    IN  root[1].fields[FindField(root[1].fields, gop.field)]

\* C19: for a root field whose unwrapped type is SCALAR or ENUM the document
\* has no selection set after the field: the only '{' is the operation's.
C19_ScalarRootNoSelection ==
    (GenSucceeded /\ TerminalOf(RootField.type).kind \in {"SCALAR", "ENUM"})
        => Opens(gout.doc, Len(gout.doc)) = 1

\* C20: in the walk over the fields of a type, a field whose unwrapped type
\* is SCALAR or ENUM is appended as its bare name, and a field whose
\* unwrapped type is OBJECT, INTERFACE or UNION is recursed into.
C20_PerFieldRule ==
    [][(spc = "walk" /\ gstack # <<>>)
         => LET top == gstack[Len(gstack)]
                fields == FieldsOfType(sload.schema, top.typeName)
            IN  (top.idx >= 1 /\ top.idx <= Len(fields))
                   => LET f == fields[top.idx]
                          u == TerminalOf(f.type)
                      IN  /\ u.kind \in {"SCALAR", "ENUM"}
                                => gstack' = [gstack EXCEPT ![Len(gstack)] =
                                                 [top EXCEPT !.sel = @ \o <<f.name>>,
                                                             !.idx = @ + 1]]
                          /\ u.kind \in {"OBJECT", "INTERFACE", "UNION"}
                                => /\ Len(gstack') = Len(gstack) + 1
                                   /\ gstack'[Len(gstack')].typeName = u.name]_vars

\* the root type a call of kind gop.kind works on (<<>>: the schema has none)
RootOf(kind) == IF kind = "query" THEN sload.schema.Query ELSE sload.schema.Mutation

IsRootField(kind, fieldName) ==
    /\ RootOf(kind) # <<>>
    /\ \E i \in DOMAIN RootOf(kind)[1].fields : RootOf(kind)[1].fields[i].name = fieldName

\* C21: GenerateQuery and GenerateMutation return an error and the empty
\* document when the schema has no root of their kind and when the name is
\* not a field of that root; the failing call changes neither the schema nor
\* the results of the earlier calls.
C21_GenerateErrors ==
    /\ []((spc = "done" /\ ~IsRootField(gop.kind, gop.field))
            => /\ gout.doc = <<>>
               /\ gout.err = (IF RootOf(gop.kind) = <<>>
                              THEN ErrNoRoot(gop.kind)
                              ELSE ErrFieldNotFound(gop.kind, gop.field))
               /\ gop.v1 = gout)
    /\ [][(spc = "ready" /\ ~IsRootField(gop'.kind, gop'.field))
            => /\ spc' = "done"
               /\ sload' = sload
               /\ gdocs' = gdocs]_vars

C21_Witness ==
    /\ spc = "done"
    /\ Len(gdocs) = 1
    /\ gdocs[1].err = ErrNil
    /\ gdocs[1].doc # <<>>
    /\ gop.kind = "mutation"
    /\ gop.field = "name"
    /\ RootOf("mutation") # <<>>
    /\ gout = MkGen(<<>>, ErrFieldNotFound("mutation", "name"))

\* the subscription call has returned
SubReturned == subret # NoSubRet
\* the messages an attempt may have sent on its socket, in order
Handshake(msgType) == <<initMsg, subMsg(msgType, squery)>>
IsPrefix(a, b) == Len(a) <= Len(b) /\ a = SubSeq(b, 1, Len(a))

\* C22: against a server that acknowledges connection_init and accepts only
\* "start", a session that SubscribeToQuery returns is the one of a second
\* attempt, made with "start" after the "subscribe" attempt failed.
C22_DialectFallback ==
    (SubReturned /\ subret.err = ErrNil
        /\ srv.ack = "connection_ack" /\ srv.accepts = {"start"})
      => /\ Len(socks) = 2
         /\ socks[1].msgType = "subscribe"
         /\ socks[1].failedAt # "none"
         /\ socks[subret.conn].msgType = "start"

\* C23: the dialects are attempted in the order "subscribe", "start", each at
\* most once and on its own socket; a later attempt is made only after the
\* earlier one failed; the first attempt that completes returns its socket
\* at once; if both fail the error wraps the error of the "start" attempt and
\* no socket is returned.
C23_DialectIteration ==
    /\ [](/\ Len(socks) <= 2
          /\ \A i \in DOMAIN socks :
                /\ socks[i].msgType = <<"subscribe", "start">>[i]
                /\ \A k \in DOMAIN socks[i].sent :
                      socks[i].sent[k].type \in {"connection_init", socks[i].msgType}
                /\ i < Len(socks) => (socks[i].failedAt # "none" /\ ~socks[i].open)
          /\ (SubReturned /\ subret.err = ErrNil)
                => /\ subret.conn = Len(socks)
                   /\ socks[subret.conn].failedAt = "none"
                   /\ socks[subret.conn].open
                   /\ socks[subret.conn].sent = Handshake(socks[subret.conn].msgType)
          /\ (SubReturned /\ subret.err # ErrNil)
                => /\ subret.conn = 0
                   /\ Len(socks) = 2
                   /\ \A i \in DOMAIN socks : socks[i].failedAt # "none" /\ ~socks[i].open
                   /\ subret.err = ErrBoth(StepErr(socks[2].failedAt, "start")))
    /\ [][SubReturned => /\ subret' = subret
                         /\ Len(socks') = Len(socks)
                         /\ \A i \in DOMAIN socks : socks'[i].sent = socks[i].sent]_vars

C23_Witness ==
    /\ SubReturned
    /\ Len(socks) = 2
    /\ socks[1].failedAt = "sub"
    /\ socks[2].failedAt = "read"
    /\ subret = [conn |-> 0,
                 err |-> ErrBoth(<<"failed to read connection_ack:", "read error">>)]

\* C24: within one attempt the steps are connect, send connection_init, read
\* one message, send {type: dialect, id: "1", payload: {query}}; no step
\* precedes the success of the one before it, and after a failed step nothing
\* more is sent or read on that socket.
C24_HandshakeOrder ==
    /\ [](\A i \in DOMAIN socks :
            LET s == socks[i]
            IN  /\ IsPrefix(s.sent, Handshake(s.msgType))
                /\ ~s.dialled => (s.sent = <<>> /\ s.got = <<>> /\ s.failedAt = "dial")
                /\ Len(s.got) >= 1 => Len(s.sent) >= 1
                /\ Len(s.sent) = 2 => Len(s.got) >= 1
                /\ (subpc \notin {"listen", "stopped"}) => Len(s.got) <= 1
                /\ s.failedAt = "init" => (s.sent = <<>> /\ s.got = <<>>)
                /\ s.failedAt = "read" => (s.sent = <<initMsg>> /\ s.got = <<>>)
                /\ s.failedAt = "sub" => (s.sent = <<initMsg>> /\ Len(s.got) = 1)
                /\ s.failedAt # "none" => ~s.open)
    /\ [][\A i \in DOMAIN socks : socks[i].failedAt # "none" => socks'[i] = socks[i]]_vars

C24_Witness ==
    /\ Len(socks) = 2
    /\ socks[1].failedAt = "read"
    /\ socks[1].sent = <<initMsg>>
    /\ socks[2].sent = <<initMsg, WSMessage("start", "1", <<"query", squery>>)>>
    /\ socks[2].got = <<"connection_error">>
    /\ subret.conn = 2

\* C25: Listen reads one message per iteration, leaves its loop only on a
\* read error, and on the first one: after a read error there is no further
\* read, no new connection and no new subscription message.
C25_ListenStopsOnError ==
    /\ [](lastRead = "err" => subpc = "stopped")
    /\ [][(subpc = "listen" /\ subpc' # "listen")
             => (subpc' = "stopped" /\ lastRead' = "err")]_vars
    /\ [][(subpc = "listen" /\ socks' # socks)
             => /\ lastRead' = "ok"
                /\ socks' = [socks EXCEPT ![subret.conn].got =
                                 Append(@, Head(peer[subret.conn].frames))]]_vars
    /\ [][lastRead = "err" => UNCHANGED <<socks, subpc, msgIdx, subret, lastRead>>]_vars

C25_Witness ==
    /\ subpc = "stopped"
    /\ lastRead = "err"
    /\ socks[subret.conn].got = <<"connection_ack", "data", "data">>

\* C26: every call of logger.Fatal, at every log level, writes its message
\* and ends the process with status 1; nothing after the call runs.
C26_FatalTerminates ==
    fatalCalls > 0
      => /\ exitCode = 1
         /\ mpc = "exited"
         /\ logOut # <<>>
         /\ logOut[Len(logOut)][1] = "fatal"

\* the number of times endpoint e was put on the channel
Occurrences(q, e) == Cardinality({ i \in DOMAIN q : q[i] = e })
SendsOf(w) == Occurrences(resultChan, Endpoint(w)) + Occurrences(results, Endpoint(w))

\* the steps of one probe goroutine, and how far it has got
WorkerStep(w) == WorkerStart(w) \/ ProbeReturn(w) \/ WorkerSend(w) \/ WorkerCancel(w)
Progress(pc) ==
    IF pc = "start" THEN 0 ELSE IF pc = "probing" THEN 1 ELSE IF pc = "send" THEN 2
    ELSE IF pc = "cancel" THEN 3 ELSE 4

\* C27: a worker sends at most once; a worker that is about to send finds the
\* channel open and not full, whatever the collector has done; the channel
\* is closed only when every worker has finished; and a worker that has not
\* finished can always take its next step, before and after the call has
\* returned, and every step takes it nearer to its end, so that every worker
\* terminates.
C27_NoWorkerBlocksOrLeaks ==
    /\ [](\A w \in Workers :
            /\ SendsOf(w) <= 1
            /\ wpc[w] = "send" => (~chanClosed /\ Len(resultChan) < Cardinality(Workers))
            /\ wpc[w] # "done" => ENABLED WorkerStep(w)
            /\ chanClosed => wpc[w] = "done")
    /\ [][\A w \in Workers :
            wpc'[w] # wpc[w] => Progress(wpc'[w]) > Progress(wpc[w])]_vars

C27_Witness ==
    /\ Returned
    /\ ~stopOnFirst
    /\ ctxErr # "none"
    /\ results = <<>>
    /\ Len(resultChan) = NumPaths
    /\ chanClosed

\* C28: in collect-all mode, when the parent context is cancelled or expires
\* while probes are outstanding, the returned list holds only endpoints that
\* tested positive, none twice, and the collector leaves no result behind on
\* the channel when it observes the cancellation.
C28_EarlyTerminationConsistent ==
    /\ []((Returned /\ ~stopOnFirst /\ parent # "active")
            => /\ Range(dret.results) \subseteq { Endpoint(w) : w \in Positives }
               /\ Len(dret.results) = Cardinality(Range(dret.results)))
    /\ [][(cpc = "collect" /\ cpc' = "DONE" /\ ~stopOnFirst /\ parent # "active")
            => resultChan = <<>>]_vars

\* C29: the collector's read of checkedEndpoints at DONE is ordered after
\* every increment: no worker can still increment when the read happens, so
\* the value read is the value of the counter.
C29_CounterRaceFree ==
    /\ [](Returned => seenChecked = checkedAtReturn)
    /\ [][(cpc = "DONE" /\ cpc' = "returned")
            => /\ hbLow = checkedEndpoints
               /\ \A w \in Workers :
                     /\ wpc[w] # "probing"
                     /\ wpc[w] = "start" => ctxErr # "none"]_vars

\* the frames of a type that have passed the increment of part_001 290
EnteredFrames(typeName) ==
    { i \in DOMAIN gstack : gstack[i].typeName = typeName /\ gstack[i].idx >= 1 }
WalkTypeNames == DOMAIN visited \cup { gstack[i].typeName : i \in DOMAIN gstack }

\* C30: during a synthesis call the count of every type name is between 0
\* and 2 and is the number of frames of that type on the recursion path, so
\* that every return leaves the counts its call found; all counts are 0 when
\* the call has returned; and every call starts with an empty map.
C30_VisitCounterDiscipline ==
    /\ [](\A t \in WalkTypeNames :
            /\ VisitCount(visited, t) \in 0..VisitCeiling
            /\ VisitCount(visited, t) = Cardinality(EnteredFrames(t)))
    /\ [](spc = "done" => \A t \in DOMAIN visited : visited[t] = 0)
    /\ [][spc = "ready" => visited' = [k \in {} |-> 0]]_vars
    /\ [][(spc = "walk" /\ Len(gstack') < Len(gstack))
            => \A t \in DOMAIN visited' :
                  visited'[t] = Cardinality({ i \in 1..(Len(gstack) - 1) :
                                     gstack[i].typeName = t /\ gstack[i].idx >= 1 })]_vars

\* A is reached through the sibling fields self and friends and expanded
\* under both, in the second call of a loop whose first call expanded A too
C30_Witness ==
    /\ spc = "done"
    /\ gop.kind = "query"
    /\ gop.field = "a"
    /\ Len(gdocs) = 1
    /\ gdocs[1].err = ErrNil
    /\ Contains(gdocs[1].doc, <<"self", "{", "id">>)
    /\ DOMAIN visited = {"A", "B"}
    /\ Contains(gout.doc, <<"self", "{", "id">>)
    /\ Contains(gout.doc, <<"friends", "{", "id">>)

\* the deepest nesting of braces in a document
RECURSIVE NestingFrom(_, _, _, _)
NestingFrom(doc, i, open, deepest) ==
    IF i > Len(doc) THEN deepest
    ELSE IF doc[i] = "{" THEN NestingFrom(doc, i + 1, open + 1, Max(deepest, open + 1))
    ELSE IF doc[i] = "}" THEN NestingFrom(doc, i + 1, open - 1, deepest)
    ELSE NestingFrom(doc, i + 1, open, deepest)
\* the nesting of the root field's selection set: the operation's own brace
\* is not counted
SelectionNesting(doc) == NestingFrom(doc, 1, 0, 0) - 1

\* C31: the braces of the selection set of a returned document are nested at
\* most maxDepth deep, maxDepth being the budget of the call.
C31_DepthBudget ==
    GenSucceeded => SelectionNesting(gout.doc) <= gop.maxDepth

\* C32: in a loop over requested names a name that is not found yields an
\* error for that name only: the loop goes on to the next name, the results
\* of the earlier names stay as they were, and the result for every name is
\* the one a call for that name alone gives, whatever the other names were.
C32_FailureIsolation ==
    /\ [](spc = "done"
            => /\ gout = GenerateDoc(sload.schema, gop.kind, gop.field, gop.maxDepth)
               /\ Len(gdocs) + 1 < MaxCalls => ENABLED NextOperation)
    /\ [][(spc = "done" /\ spc' # "done")
            => (spc' = "ready" /\ gdocs' = Append(gdocs, gout))]_vars
    /\ [][\A i \in DOMAIN gdocs : i \in DOMAIN gdocs' /\ gdocs'[i] = gdocs[i]]_vars

C32_Witness ==
    /\ spc = "done"
    /\ Len(gdocs) = 1
    /\ gdocs[1] = MkGen(<<>>, ErrFieldNotFound("query", "nosuch"))
    /\ gop.field = "a"
    /\ gout.err = ErrNil
    /\ Contains(gout.doc, <<"friends", "{", "id">>)

\* C33: when the Apollo detector matched while the caller's context was
\* neither cancelled nor expired, the call returns "Apollo" and not the
\* failure.
C33_PositiveNeverLost ==
    (fcpc = "returned" /\ fliveMatch)
        => fret = MkEngine("Apollo", "nil")

\* C34: DetectEngineWithContext always returns: once the detector goroutine
\* has finished the call eventually returns, whatever the caller's context
\* does, also when the detector did not match or ended with an error.
C34_AlwaysReturns ==
    (fdpc = "done") ~> (fcpc = "returned")

OpenSocks == {i \in DOMAIN socks : socks[i].open}

\* C35: socket ownership in SubscribeToQuery: a socket whose attempt failed is
\* closed before the next attempt starts or the function returns, at most one
\* socket is open at any time, after the error return none is open, and after
\* a successful return exactly the returned socket is open.
C35_SocketOwnership ==
    /\ Cardinality(OpenSocks) <= 1
    /\ \A i \in DOMAIN socks : socks[i].failedAt # "none" => ~socks[i].open
    /\ subpc = "dial" => OpenSocks = {}
    /\ \A i \in OpenSocks : i = Len(socks) /\ socks[i].msgType = msgTypes[msgIdx]
    /\ (SubReturned /\ subret.err # ErrNil) => OpenSocks = {}
    /\ (SubReturned /\ subret.err = ErrNil) => OpenSocks = {subret.conn}

\* the first attempt failed on a socket it had opened and the second attempt
\* returned its socket
C35_Witness ==
    /\ SubReturned
    /\ subret.err = ErrNil
    /\ Len(socks) = 2
    /\ socks[1].dialled
    /\ socks[1].failedAt \in {"init", "read", "sub"}
    /\ OpenSocks = {2}

\* C36: on every socket the subscription message ("subscribe" or "start") is
\* written only if the one message read after connection_init is a
\* connection_ack.
C36_SubscribeOnlyAfterAck ==
    \A i \in DOMAIN socks :
        (\E k \in DOMAIN socks[i].sent : socks[i].sent[k].type = socks[i].msgType)
            => (socks[i].got # <<>> /\ Head(socks[i].got) = "connection_ack")

\* IsIntrospectionEnabled was true for the i-th audited endpoint
AuditedEnabled(i) == Head(alog[i].events) = "enabled"

\* C37: once the summary is logged, it says "ENABLED on at least one
\* endpoint" exactly when IsIntrospectionEnabled was true for some audited
\* endpoint, and "disabled on all checked endpoints" only when it was true for
\* none, also when writing a result file failed.
C37_SummaryConsistent ==
    asummary # "none"
        => /\ (asummary = "enabled") <=> (\E i \in DOMAIN alog : AuditedEnabled(i))
           /\ (asummary = "disabled-all") => (\A i \in DOMAIN alog : ~AuditedEnabled(i))

\* C38: two distinct target URLs of one run that both have introspection
\* enabled get different output file names, and every saved result is still
\* on disk under its endpoint's name.
C38_OneFilePerEndpoint ==
    /\ \A i, j \in DOMAIN alog :
          (i # j /\ AuditedEnabled(i) /\ AuditedEnabled(j))
              => generateOutputFileName("introspection", alog[i].url)
                    # generateOutputFileName("introspection", alog[j].url)
    /\ \A i \in DOMAIN alog :
          alog[i].events = <<"enabled", "saved">>
              => \E k \in DOMAIN afiles :
                    /\ afiles[k].from = alog[i].url
                    /\ afiles[k].name = generateOutputFileName("introspection", alog[i].url)

\* C39: every target list main builds is audited whatever its length: when
\* the audit has ended, the introspection check has been run once on each
\* target, in order; in particular on the base URL when detection was not
\* requested.
C39_DirectURLAudited ==
    asummary # "none"
        => /\ Len(alog) = Len(atargets)
           /\ \A i \in DOMAIN atargets : alog[i].url = atargets[i]

====
